---- MODULE Spec2Model ----
(***************************************************************************)
(* Model of the external-task worker of nativebpm/camunda:                *)
(*   internal/worker/worker.go  (Worker, RegisterHandler, Start,           *)
(*                               fetchAndLock, processTask)                *)
(*   camunda.go (src/unnamed/part_002)  (handlerAdapter.Handle)            *)
(*   internal/builder (src/unnamed/part_007) (TaskCompletion/TaskFailure)  *)
(*                                                                         *)
(* Three specifications share the definitions below:                       *)
(*   RegSpec  - the construction phase: New, then a chain of               *)
(*              RegisterHandler / SetMaxTasks / SetPollInterval calls;     *)
(*   Spec     - Start's poll loop and the goroutines it launches, begun    *)
(*              from a worker built by one of a few construction chains;   *)
(*   LiveSpec - Spec with the fairness the Go scheduler gives.             *)
(*                                                                         *)
(* Modelling decisions:                                                    *)
(*   - the engine hands each of its tasks out once (no lock expiry);       *)
(*   - the error a complete/fail request returns goes to the handler and   *)
(*     is not kept in the state: the worker itself never reads it;         *)
(*   - an unrecovered panic ends the process: crashed disables every step; *)
(*   - consecFails, dispatchedAfter, regHist and confHist are history      *)
(*     variables.                                                          *)
(***************************************************************************)
EXTENDS Integers, Sequences, FiniteSets, TLC

VARIABLES
    w,           \* the Worker struct: workerID, handlers, topics, maxTasks, pollInterval
    pc,          \* position of the caller: "setup" | "check" | "selected" | "fetching" | "sleeping" | "returned"
    sleepFor,    \* duration (ms) of the time.Sleep in progress, 0 when not sleeping
    cancelled,   \* ctx.Done() is closed
    crashed,     \* the process died of an unrecovered panic
    fetchReq,    \* body of the last fetchAndLock request sent
    fetchCtxDone, \* ctx was already done when the last fetchAndLock call was made
    pending,     \* engine side: tasks not yet handed to this worker
    procs,       \* the goroutines launched by Start, in launch order
    consecFails, \* history: failed fetches since the last successful one (saturating)
    dispatchedAfter, \* history: consecFails at the latest dispatch, -1 before any dispatch
    regHist,     \* history: the RegisterHandler calls made, each as
                 \* <<topicName, handler, lockDuration, variables>>
    confHist,    \* history: the workerID given to New and the values last given to
                 \* SetMaxTasks and SetPollInterval (0: never called)
    reports,     \* ReportSpec: the complete / fail invocations made, with the answer
                 \* each got and the error each returned
    built,       \* VariableSpec: the variables built by the constructors, in call order
    decoded,     \* DecodeSpec: the results of ExternalTask.UnmarshalJSON, in call order
    handled      \* AdapterSpec: the runs of handlerAdapter.Handle, each with the requests
                 \* of the user handler, its error and the request of the adapter

workerVars == <<w, pc, sleepFor, cancelled, crashed, fetchReq, fetchCtxDone, pending, procs,
               consecFails, dispatchedAfter, regHist, confHist>>

\* The state of the parts that are checked on their own, apart from the worker.
unitVars == <<reports, built, decoded, handled>>

vars == <<workerVars, unitVars>>

loopVars == <<pc, sleepFor, fetchReq, fetchCtxDone, pending, consecFails, dispatchedAfter>>

(***************************************************************************)
(* Bounds of the model                                                     *)
(***************************************************************************)
MaxRegs == 2      \* RegisterHandler calls in one construction chain (RegSpec)
MaxCalls == 2     \* complete/fail invocations the handlers of one run make in all
MaxReports == 3   \* complete/fail invocations followed (ReportSpec)
MaxBuilt == 2     \* constructor calls followed (VariableSpec)
MaxDecoded == 2   \* task documents decoded (DecodeSpec)
MaxHandled == 2   \* runs of handlerAdapter.Handle followed (AdapterSpec)
MaxRedeliveries == 1 \* times the engine gives out a task again (RedeliverySpec)
MaxFails == 1     \* cap of the consecutive-failure history counter

(***************************************************************************)
(* Program constants                                                       *)
(***************************************************************************)
DefaultMaxTasks == 10
DefaultPollInterval == 5000
BriefPause == 1000
StatusOK == 200
StatusNoContent == 204
AutoFailRetries == 3
AutoFailRetryTimeout == 30000

(***************************************************************************)
(* Value sets the inputs are drawn from                                    *)
(***************************************************************************)
TopicNames == {"t1", "t2"}
Handlers == {"raw", "adapter"}   \* a plain TaskHandler; the public worker's handlerAdapter
NoHandler == "none"
NilLogger == "nil"
DefaultLogger == "slog.Default"
Loggers == {NilLogger, "custom"}   \* the logger argument of New / NewWorker
LockDurations == {0, 30000, 60000}   \* lockDuration is a plain int: nothing is refused
VariableLists == {<<>>, <<"x">>}
MaxTasksValues == {20}
PollIntervals == {3000}
WorkerIDs == {"worker-1"}
NoErr == "nil"
HandlerErr == "boom"

IsAdapter(h) == h = "adapter"

\* The tasks the engine holds for this worker.
EngineTasks ==
    { [ id |-> "T1", topicName |-> "t1", variables |-> {"amount"},
        businessKey |-> "order-1", processInstanceId |-> "P1", errorMessage |-> "" ],
      [ id |-> "T2", topicName |-> "t2", variables |-> {},
        businessKey |-> "", processInstanceId |-> "P2", errorMessage |-> "" ] }

NoTask ==
    [ id |-> "", topicName |-> "", variables |-> {}, businessKey |-> "",
      processInstanceId |-> "", errorMessage |-> "" ]
NoCallbacks == [nonNil |-> FALSE, taskID |-> "", workerID |-> ""]

Min(a, b) == IF a < b THEN a ELSE b

(***************************************************************************)
(* Construction phase                                                      *)
(***************************************************************************)
\* worker.New: a nil logger is replaced by the default logger.
New(workerID, logger) ==
    [ workerID     |-> workerID,
      handlers     |-> [t \in {} |-> NoHandler],
      topics       |-> <<>>,
      maxTasks     |-> DefaultMaxTasks,
      pollInterval |-> DefaultPollInterval,
      logger       |-> IF logger = NilLogger THEN DefaultLogger ELSE logger ]

\* camunda.NewWorker: the internal worker together with the logger as it was
\* given, which RegisterHandler hands to every handlerAdapter.
NewWorker(workerID, logger) ==
    LET iw == New(workerID, logger) IN
    [ workerID      |-> iw.workerID,
      handlers      |-> iw.handlers,
      topics        |-> iw.topics,
      maxTasks      |-> iw.maxTasks,
      pollInterval  |-> iw.pollInterval,
      logger        |-> iw.logger,
      adapterLogger |-> logger ]

TopicRequest(topicName, lockDuration, variables) ==
    [ topicName |-> topicName, lockDuration |-> lockDuration, variables |-> variables ]

\* RegisterHandler as it would be if an already registered topic kept its handler.
RegisterHandlerFirstWins(wk, topicName, handler, lockDuration, variables) ==
    [ wk EXCEPT
        !.handlers = [t \in (DOMAIN wk.handlers) \cup {topicName} |->
                         IF t \in DOMAIN wk.handlers THEN wk.handlers[t] ELSE handler],
        !.topics   = Append(wk.topics, TopicRequest(topicName, lockDuration, variables)) ]

\* Worker.RegisterHandler: w.handlers[topicName] = handler; w.topics = append(w.topics, ...)
\* RegisterHandler as it would be if it kept a handler only for a positive
\* lock duration, after the subscription was appended.
RegisterHandlerChecksLock(wk, topicName, handler, lockDuration, variables) ==
    [ wk EXCEPT
        !.handlers = [t \in (DOMAIN wk.handlers) \cup (IF lockDuration > 0 THEN {topicName} ELSE {}) |->
                         IF t = topicName /\ lockDuration > 0 THEN handler ELSE wk.handlers[t]],
        !.topics   = Append(wk.topics, TopicRequest(topicName, lockDuration, variables)) ]

RegisterHandler(wk, topicName, handler, lockDuration, variables) ==
    [ wk EXCEPT
        !.handlers = [t \in (DOMAIN wk.handlers) \cup {topicName} |->
                         IF t = topicName THEN handler ELSE wk.handlers[t]],
        !.topics   = Append(wk.topics, TopicRequest(topicName, lockDuration, variables)) ]

\* SetMaxTasks as it would be if it gave back a fresh worker with the new limit.
SetMaxTasksFresh(wk, maxTasks) ==
    [NewWorker(wk.workerID, wk.adapterLogger) EXCEPT !.maxTasks = maxTasks]

\* Worker.SetMaxTasks
SetMaxTasks(wk, maxTasks) == [wk EXCEPT !.maxTasks = maxTasks]

\* Worker.SetPollInterval
SetPollInterval(wk, interval) == [wk EXCEPT !.pollInterval = interval]

\* handler, ok := w.handlers[topicName]
Lookup(wk, topicName) ==
    IF topicName \in DOMAIN wk.handlers
        THEN [ok |-> TRUE, handler |-> wk.handlers[topicName]]
        ELSE [ok |-> FALSE, handler |-> NoHandler]

NoFetchReq == [workerId |-> "", maxTasks |-> 0, usePriority |-> FALSE, topics |-> <<>>]

\* The call history of a worker just made by New.
NoConf(workerID) == [workerID |-> workerID, maxTasks |-> 0, pollInterval |-> 0]

\* The state before Start, around a given worker, with the tasks the engine
\* has to give.
InitOn(wk, hist, conf, tasks) ==
    /\ w = wk
    /\ regHist = hist
    /\ confHist = conf
    /\ pc = "setup"
    /\ sleepFor = 0
    /\ cancelled = FALSE
    /\ crashed = FALSE
    /\ fetchReq = NoFetchReq
    /\ fetchCtxDone = FALSE
    /\ pending = tasks
    /\ procs = <<>>
    /\ consecFails = 0
    /\ dispatchedAfter = -1
    /\ reports = <<>>
    /\ built = <<>>
    /\ decoded = <<>>
    /\ handled = <<>>

\* The state every specification starts from, around a given worker.
InitWith(wk, hist, conf) == InitOn(wk, hist, conf, EngineTasks)

runVars == <<sleepFor, cancelled, crashed, fetchReq, fetchCtxDone, pending, procs, consecFails, dispatchedAfter>>

\* w.RegisterHandler(topicName, handler, lockDuration, variables), before Start
DoRegisterHandler(topicName, handler, lockDuration, variables) ==
    /\ pc = "setup"
    /\ Len(w.topics) < MaxRegs
    /\ w' = RegisterHandler(w, topicName, handler, lockDuration, variables)
    /\ regHist' = Append(regHist, <<topicName, handler, lockDuration, variables>>)
    /\ UNCHANGED <<pc, confHist, runVars, unitVars>>

\* w.SetMaxTasks(maxTasks), before Start
DoSetMaxTasks(maxTasks) ==
    /\ pc = "setup"
    /\ w' = SetMaxTasks(w, maxTasks)
    /\ confHist' = [confHist EXCEPT !.maxTasks = maxTasks]
    /\ UNCHANGED <<pc, regHist, runVars, unitVars>>

\* w.SetPollInterval(interval), before Start
DoSetPollInterval(interval) ==
    /\ pc = "setup"
    /\ w' = SetPollInterval(w, interval)
    /\ confHist' = [confHist EXCEPT !.pollInterval = interval]
    /\ UNCHANGED <<pc, regHist, runVars, unitVars>>

RegInit ==
    \E id \in WorkerIDs, logger \in Loggers :
        InitWith(NewWorker(id, logger), <<>>, NoConf(id))

RegNext ==
    \/ \E t \in TopicNames, h \in Handlers, l \in LockDurations, v \in VariableLists :
          DoRegisterHandler(t, h, l, v)
    \/ \E n \in MaxTasksValues : DoSetMaxTasks(n)
    \/ \E d \in PollIntervals : DoSetPollInterval(d)

RegSpec == RegInit /\ [][RegNext]_vars

(***************************************************************************)
(* Construction chains the poll loop is started from                       *)
(***************************************************************************)
Reg(topicName, handler, lockDuration, variables) ==
    [ op |-> "RegisterHandler", topicName |-> topicName, handler |-> handler,
      lockDuration |-> lockDuration, variables |-> variables, n |-> 0 ]

Set(op, n) ==
    [ op |-> op, topicName |-> "", handler |-> NoHandler,
      lockDuration |-> 0, variables |-> <<>>, n |-> n ]

Chains ==
    { <<>>,
      << Reg("t1", "raw", 60000, <<"x">>), Reg("t2", "adapter", 30000, <<>>) >>,
      << Reg("t1", "raw", 60000, <<"x">>), Set("SetPollInterval", 3000),
         Reg("t1", "adapter", 30000, <<>>), Set("SetMaxTasks", 20) >> }

\* One call of a construction chain applied to the worker.
Apply(wk, c) ==
    CASE c.op = "RegisterHandler" ->
             RegisterHandler(wk, c.topicName, c.handler, c.lockDuration, c.variables)
      [] c.op = "SetMaxTasks"     -> SetMaxTasks(wk, c.n)
      [] c.op = "SetPollInterval" -> SetPollInterval(wk, c.n)

RECURSIVE Built(_, _)
Built(wk, chain) ==
    IF chain = <<>> THEN wk ELSE Built(Apply(wk, Head(chain)), Tail(chain))

RECURSIVE HistOf(_)
HistOf(chain) ==
    IF chain = <<>> THEN <<>>
    ELSE IF Head(chain).op = "RegisterHandler"
         THEN << <<Head(chain).topicName, Head(chain).handler,
                    Head(chain).lockDuration, Head(chain).variables>> >>
              \o HistOf(Tail(chain))
         ELSE HistOf(Tail(chain))

RECURSIVE ConfOf(_, _)
ConfOf(conf, chain) ==
    IF chain = <<>> THEN conf
    ELSE ConfOf(CASE Head(chain).op = "SetMaxTasks" ->
                         [conf EXCEPT !.maxTasks = Head(chain).n]
                  [] Head(chain).op = "SetPollInterval" ->
                         [conf EXCEPT !.pollInterval = Head(chain).n]
                  [] OTHER -> conf,
                Tail(chain))

\* The chain of a public Worker made with a nil logger.
NilLoggerChain == << Reg("t1", "adapter", 30000, <<>>), Reg("t2", "raw", 60000, <<"x">>) >>

\* The workers the poll loop is started for: each chain on a worker made with a
\* logger, and one chain on a worker made with a nil logger.
Starts ==
    { <<"custom", chain>> : chain \in Chains } \cup { <<NilLogger, NilLoggerChain>> }

Init ==
    \E id \in WorkerIDs, st \in Starts :
        InitWith(Built(NewWorker(id, st[1]), st[2]), HistOf(st[2]),
                 ConfOf(NoConf(id), st[2]))

(***************************************************************************)
(* The external engine                                                     *)
(***************************************************************************)
\* Sequences without repetition over a set of at most two tasks, at most n long.
Batches(S, n) ==
    { <<>> }
    \cup (IF n >= 1 THEN { <<a>> : a \in S } ELSE {})
    \cup (IF n >= 2 THEN UNION { { <<a, b>> : b \in S \ {a} } : a \in S } ELSE {})

\* What a POST /external-task/fetchAndLock can come back with.
FetchResponses ==
    { [transportErr |-> TRUE, status |-> 0, tasks |-> <<>>],
      [transportErr |-> FALSE, status |-> 500, tasks |-> <<>>] }
    \cup { [transportErr |-> FALSE, status |-> st, tasks |-> b] :
             st \in {StatusOK, 201, StatusNoContent}, b \in Batches(pending, w.maxTasks) }

\* What a POST .../complete or .../failure can come back with.
ReportResponses ==
    { [transportErr |-> TRUE, status |-> 0],
      [transportErr |-> FALSE, status |-> 500],
      [transportErr |-> FALSE, status |-> StatusOK],
      [transportErr |-> FALSE, status |-> StatusNoContent] }

\* A request made with a context that is already done is not carried out: the
\* transport returns the context's error. With a live context any answer can
\* come back.
CanComeBack(resp, ctxDone) == ctxDone => resp.transportErr

Range(s) == { s[i] : i \in DOMAIN s }

(***************************************************************************)
(* Start: the poll loop                                                    *)
(***************************************************************************)
\* FetchRequest as it would be if the topic list were sent newest first.
FetchRequestNewestFirst(wk) ==
    [ workerId |-> wk.workerID, maxTasks |-> wk.maxTasks, usePriority |-> TRUE,
      topics |-> [i \in 1..Len(wk.topics) |-> wk.topics[Len(wk.topics) + 1 - i]] ]

\* The request body Worker.fetchAndLock builds.
FetchRequest(wk) ==
    [ workerId |-> wk.workerID, maxTasks |-> wk.maxTasks,
      usePriority |-> TRUE, topics |-> wk.topics ]

\* A topic entry as it would be encoded if an empty variable list were kept.
MarshalTopicKeepsEmpty(t) ==
    [ topicName |-> t.topicName, lockDuration |-> t.lockDuration,
      variables |-> t.variables ]

\* encoding/json on a TopicRequest: topicName and lockDuration are always
\* written; variables carries omitempty, so a list of length 0 (nil or
\* []string{}) leaves no "variables" key.  The other omitempty fields are
\* never set by RegisterHandler and are never written.
MarshalTopic(t) ==
    IF Len(t.variables) = 0
        THEN [ topicName |-> t.topicName, lockDuration |-> t.lockDuration ]
        ELSE [ topicName |-> t.topicName, lockDuration |-> t.lockDuration,
               variables |-> t.variables ]

\* .JSON(req): the body that goes to the engine for a request struct.
JSON(req) ==
    [ workerId |-> req.workerId, maxTasks |-> req.maxTasks,
      usePriority |-> req.usePriority,
      topics |-> [i \in DOMAIN req.topics |-> MarshalTopic(req.topics[i])] ]

\* fetchAndLock as it would be if every 2xx status were taken for a success.
FetchAndLockAny2xx(resp) ==
    IF resp.transportErr
        THEN [err |-> "failed to send fetchAndLock request", tasks |-> <<>>]
    ELSE IF resp.status < 200 \/ resp.status >= 300
        THEN [err |-> "fetchAndLock request failed with status", tasks |-> <<>>]
    ELSE [err |-> NoErr, tasks |-> resp.tasks]

\* Worker.fetchAndLock's result for a response: (tasks, err).
FetchAndLock(resp) ==
    IF resp.transportErr
        THEN [err |-> "failed to send fetchAndLock request", tasks |-> <<>>]
    ELSE IF resp.status # StatusOK
        THEN [err |-> "fetchAndLock request failed with status", tasks |-> <<>>]
    ELSE [err |-> NoErr, tasks |-> resp.tasks]

\* go w.processTask(ctx, task): a goroutine that has not run yet.
Spawn(task) ==
    [ task |-> task, status |-> "start", handler |-> NoHandler, arg |-> NoTask,
      cb |-> NoCallbacks, calls |-> <<>>, err |-> NoErr ]

\* The caller enters Start.
Start ==
    /\ pc = "setup"
    /\ ~crashed
    /\ pc' = "check"
    /\ UNCHANGED <<w, regHist, confHist, unitVars, runVars>>

\* LoopTop as it would be if the loop gave up after repeated fetch errors.
LoopTopGivesUp ==
    /\ pc = "check"
    /\ ~crashed
    /\ pc' = IF cancelled \/ consecFails >= 1 THEN "returned" ELSE "selected"
    /\ UNCHANGED <<w, regHist, confHist, unitVars, sleepFor, cancelled, crashed, fetchReq, fetchCtxDone, pending, procs,
                   consecFails, dispatchedAfter>>

\* LoopTop as it would be if a failed fetch were retried before a cancellation
\* is honoured.
LoopTopRetriesFirst ==
    /\ pc = "check"
    /\ ~crashed
    /\ pc' = IF cancelled /\ consecFails = 0 THEN "returned" ELSE "selected"
    /\ UNCHANGED <<w, regHist, confHist, unitVars, sleepFor, cancelled, crashed, fetchReq, fetchCtxDone, pending,
                   procs, consecFails, dispatchedAfter>>

\* LoopTop as it would be if Start joined its goroutines before returning.
LoopTopJoins ==
    /\ pc = "check"
    /\ ~crashed
    /\ cancelled => \A g \in DOMAIN procs : procs[g].status \in {"dropped", "returned"}
    /\ pc' = IF cancelled THEN "returned" ELSE "selected"
    /\ UNCHANGED <<w, regHist, confHist, unitVars, sleepFor, cancelled, crashed, fetchReq, fetchCtxDone, pending,
                   procs, consecFails, dispatchedAfter>>

\* LoopTop as it would be if an iteration began only when the handlers of the
\* batches before it are over.
LoopTopWaitsForBatch ==
    /\ pc = "check"
    /\ ~crashed
    /\ \A g \in DOMAIN procs : procs[g].status \in {"dropped", "returned"}
    /\ pc' = IF cancelled THEN "returned" ELSE "selected"
    /\ UNCHANGED <<w, regHist, confHist, unitVars, sleepFor, cancelled, crashed, fetchReq, fetchCtxDone, pending,
                   procs, consecFails, dispatchedAfter>>

\* LoopTop as it would be if a cancelled loop polled one last time, with the
\* cancelled context, before it returned.
LoopTopLastPoll ==
    /\ pc = "check"
    /\ ~crashed
    /\ pc' = IF cancelled /\ fetchCtxDone THEN "returned" ELSE "selected"
    /\ UNCHANGED <<w, regHist, confHist, unitVars, sleepFor, cancelled, crashed, fetchReq, fetchCtxDone, pending, procs,
                   consecFails, dispatchedAfter>>

\* Top of the loop: the select returns from Start when ctx is done, else takes
\* its default branch. ctx can be cancelled between this check and the call
\* below.
LoopTop ==
    /\ pc = "check"
    /\ ~crashed
    /\ pc' = IF cancelled THEN "returned" ELSE "selected"
    /\ UNCHANGED <<w, regHist, confHist, unitVars, sleepFor, cancelled, crashed, fetchReq, fetchCtxDone, pending, procs,
                   consecFails, dispatchedAfter>>

\* CallFetchAndLock as it would be if the next fetch were sent while the loop
\* still sleeps after the previous one.
CallFetchAndLockEarly ==
    /\ pc \in {"selected", "sleeping"}
    /\ ~crashed
    /\ pc' = "fetching"
    /\ fetchReq' = FetchRequest(w)
    /\ fetchCtxDone' = cancelled
    /\ UNCHANGED <<w, regHist, confHist, unitVars, sleepFor, cancelled, crashed, pending, procs, consecFails,
                   dispatchedAfter>>

\* The loop calls fetchAndLock, which builds the request and sends it with ctx.
CallFetchAndLock ==
    /\ pc = "selected"
    /\ ~crashed
    /\ pc' = "fetching"
    /\ fetchReq' = FetchRequest(w)
    /\ fetchCtxDone' = cancelled
    /\ UNCHANGED <<w, regHist, confHist, unitVars, sleepFor, cancelled, crashed, pending, procs, consecFails,
                   dispatchedAfter>>

\* FetchReturn as it would be if a fetch error ended Start.
FetchReturnFatal(resp) ==
    /\ pc = "fetching"
    /\ ~crashed
    /\ CanComeBack(resp, fetchCtxDone)
    /\ LET r == FetchAndLock(resp) IN
         IF r.err # NoErr THEN
              /\ pc' = "returned"
              /\ consecFails' = Min(consecFails + 1, MaxFails)
              /\ UNCHANGED <<procs, pending, dispatchedAfter, sleepFor>>
         ELSE IF Len(r.tasks) = 0 THEN
              /\ pc' = "sleeping"
              /\ sleepFor' = w.pollInterval
              /\ consecFails' = 0
              /\ UNCHANGED <<procs, pending, dispatchedAfter>>
         ELSE
              /\ pc' = "sleeping"
              /\ procs' = procs \o [i \in 1..Len(r.tasks) |-> Spawn(r.tasks[i])]
              /\ pending' = pending \ Range(r.tasks)
              /\ dispatchedAfter' = consecFails
              /\ sleepFor' = BriefPause
              /\ consecFails' = 0
    /\ UNCHANGED <<w, regHist, confHist, unitVars, cancelled, crashed, fetchReq, fetchCtxDone>>

\* FetchReturn as it would be if a batch fetched right after a failed fetch
\* were skipped instead of dispatched.
FetchReturnSkipsAfterFailure(resp) ==
    /\ pc = "fetching"
    /\ ~crashed
    /\ CanComeBack(resp, fetchCtxDone)
    /\ LET r == FetchAndLock(resp) IN
         IF r.err # NoErr THEN
              /\ sleepFor' = w.pollInterval
              /\ consecFails' = Min(consecFails + 1, MaxFails)
              /\ UNCHANGED <<procs, pending, dispatchedAfter>>
         ELSE IF Len(r.tasks) = 0 THEN
              /\ sleepFor' = w.pollInterval
              /\ consecFails' = 0
              /\ UNCHANGED <<procs, pending, dispatchedAfter>>
         ELSE
              /\ procs' = IF consecFails > 0 THEN procs
                          ELSE procs \o [i \in 1..Len(r.tasks) |-> Spawn(r.tasks[i])]
              /\ pending' = pending \ Range(r.tasks)
              /\ dispatchedAfter' = consecFails
              /\ sleepFor' = BriefPause
              /\ consecFails' = 0
    /\ pc' = "sleeping"
    /\ UNCHANGED <<w, regHist, confHist, unitVars, cancelled, crashed, fetchReq, fetchCtxDone>>

\* FetchReturn as it would be if the loop paused one poll interval after every
\* fetch, dispatched batch or not.
FetchReturnAlwaysPolls(resp) ==
    /\ pc = "fetching"
    /\ ~crashed
    /\ CanComeBack(resp, fetchCtxDone)
    /\ LET r == FetchAndLock(resp) IN
         IF r.err # NoErr THEN
              /\ consecFails' = Min(consecFails + 1, MaxFails)
              /\ UNCHANGED <<procs, pending, dispatchedAfter>>
         ELSE IF Len(r.tasks) = 0 THEN
              /\ consecFails' = 0
              /\ UNCHANGED <<procs, pending, dispatchedAfter>>
         ELSE
              /\ procs' = procs \o [i \in 1..Len(r.tasks) |-> Spawn(r.tasks[i])]
              /\ pending' = pending \ Range(r.tasks)
              /\ dispatchedAfter' = consecFails
              /\ consecFails' = 0
    /\ sleepFor' = w.pollInterval
    /\ pc' = "sleeping"
    /\ UNCHANGED <<w, regHist, confHist, unitVars, cancelled, crashed, fetchReq, fetchCtxDone>>

\* FetchReturn as it would be if a task whose id is already with a goroutine
\* were not dispatched again.
FetchReturnDedupes(resp) ==
    /\ pc = "fetching"
    /\ ~crashed
    /\ CanComeBack(resp, fetchCtxDone)
    /\ LET r == FetchAndLock(resp)
           known == { procs[g].task.id : g \in DOMAIN procs }
           fresh == SelectSeq(r.tasks, LAMBDA t : t.id \notin known)
       IN
         IF r.err # NoErr THEN
              /\ sleepFor' = w.pollInterval
              /\ consecFails' = Min(consecFails + 1, MaxFails)
              /\ UNCHANGED <<procs, pending, dispatchedAfter>>
         ELSE IF Len(r.tasks) = 0 THEN
              /\ sleepFor' = w.pollInterval
              /\ consecFails' = 0
              /\ UNCHANGED <<procs, pending, dispatchedAfter>>
         ELSE
              /\ procs' = procs \o [i \in 1..Len(fresh) |-> Spawn(fresh[i])]
              /\ pending' = pending \ Range(r.tasks)
              /\ dispatchedAfter' = consecFails
              /\ sleepFor' = BriefPause
              /\ consecFails' = 0
    /\ pc' = "sleeping"
    /\ UNCHANGED <<w, regHist, confHist, unitVars, cancelled, crashed, fetchReq, fetchCtxDone>>

\* FetchReturn as it would be if polling went on in the background after Start
\* had returned: a batch of the engine is dispatched then as well.
FetchReturnDetached(resp) ==
    /\ pc \in {"fetching", "returned"}
    /\ ~crashed
    /\ CanComeBack(resp, pc = "fetching" /\ fetchCtxDone)
    /\ LET r == FetchAndLock(resp) IN
         IF r.err # NoErr THEN
              /\ sleepFor' = IF pc = "fetching" THEN w.pollInterval ELSE sleepFor
              /\ consecFails' = Min(consecFails + 1, MaxFails)
              /\ UNCHANGED <<procs, pending, dispatchedAfter>>
         ELSE IF Len(r.tasks) = 0 THEN
              /\ sleepFor' = IF pc = "fetching" THEN w.pollInterval ELSE sleepFor
              /\ consecFails' = 0
              /\ UNCHANGED <<procs, pending, dispatchedAfter>>
         ELSE
              /\ procs' = procs \o [i \in 1..Len(r.tasks) |-> Spawn(r.tasks[i])]
              /\ pending' = pending \ Range(r.tasks)
              /\ dispatchedAfter' = consecFails
              /\ sleepFor' = IF pc = "fetching" THEN BriefPause ELSE sleepFor
              /\ consecFails' = 0
    /\ pc' = IF pc = "fetching" THEN "sleeping" ELSE pc
    /\ UNCHANGED <<w, regHist, confHist, unitVars, cancelled, crashed, fetchReq, fetchCtxDone>>

\* fetchAndLock returns; the loop sleeps or dispatches and sleeps.
FetchReturn(resp) ==
    /\ pc = "fetching"
    /\ ~crashed
    /\ CanComeBack(resp, fetchCtxDone)
    /\ LET r == FetchAndLock(resp) IN
         IF r.err # NoErr THEN
              /\ sleepFor' = w.pollInterval
              /\ consecFails' = Min(consecFails + 1, MaxFails)
              /\ UNCHANGED <<procs, pending, dispatchedAfter>>
         ELSE IF Len(r.tasks) = 0 THEN
              /\ sleepFor' = w.pollInterval
              /\ consecFails' = 0
              /\ UNCHANGED <<procs, pending, dispatchedAfter>>
         ELSE
              /\ procs' = procs \o [i \in 1..Len(r.tasks) |-> Spawn(r.tasks[i])]
              /\ pending' = pending \ Range(r.tasks)
              /\ dispatchedAfter' = consecFails
              /\ sleepFor' = BriefPause
              /\ consecFails' = 0
    /\ pc' = "sleeping"
    /\ UNCHANGED <<w, regHist, confHist, unitVars, cancelled, crashed, fetchReq, fetchCtxDone>>

\* Wake as it would be if ctx were only looked at before the sleep, so that the
\* loop went on to the next fetch after it.
WakeSkipsCheck ==
    /\ pc = "sleeping"
    /\ ~crashed
    /\ pc' = "selected"
    /\ sleepFor' = 0
    /\ UNCHANGED <<w, regHist, confHist, unitVars, cancelled, crashed, fetchReq, fetchCtxDone, pending, procs, consecFails,
                   dispatchedAfter>>

\* time.Sleep returns.
Wake ==
    /\ pc = "sleeping"
    /\ ~crashed
    /\ pc' = "check"
    /\ sleepFor' = 0
    /\ UNCHANGED <<w, regHist, confHist, unitVars, cancelled, crashed, fetchReq, fetchCtxDone, pending, procs, consecFails,
                   dispatchedAfter>>

\* The caller cancels the context.
Cancel ==
    /\ ~cancelled
    /\ ~crashed
    /\ cancelled' = TRUE
    /\ UNCHANGED <<w, regHist, confHist, unitVars, pc, sleepFor, crashed, fetchReq, fetchCtxDone, pending, procs, consecFails,
                   dispatchedAfter>>

(***************************************************************************)
(* processTask and the handlers                                            *)
(***************************************************************************)
\* The requests in the call logs of the goroutines ps.
RECURSIVE Requests(_)
Requests(ps) == IF ps = <<>> THEN 0 ELSE Len(Head(ps).calls) + Requests(Tail(ps))

\* The complete/fail invocations made so far by the handlers themselves.
HandlerCalls ==
    Requests(procs)
      - Cardinality({ g \in DOMAIN procs : procs[g].status = "returned"
                        /\ IsAdapter(procs[g].handler) /\ procs[g].err # NoErr })

\* The complete and fail closures processTask creates for a task.
Callbacks(wk, task) == [nonNil |-> TRUE, taskID |-> task.id, workerID |-> wk.workerID]

\* CompleteRequest as it would be if the completion were sent without the
\* worker's identity.
CompleteRequestAnonymous(cb) ==
    [ kind |-> "complete", taskID |-> cb.taskID, workerId |-> "",
      errorMessage |-> "", errorDetails |-> "", retries |-> 0, retryTimeout |-> 0 ]

\* The request TaskCompletion.Execute sends for the complete closure.
CompleteRequest(cb) ==
    [ kind |-> "complete", taskID |-> cb.taskID, workerId |-> cb.workerID,
      errorMessage |-> "", errorDetails |-> "", retries |-> 0, retryTimeout |-> 0 ]

\* The request TaskFailure.Execute sends for the fail closure.
FailRequest(cb, errorMessage, errorDetails, retries, retryTimeout) ==
    [ kind |-> "fail", taskID |-> cb.taskID, workerId |-> cb.workerID,
      errorMessage |-> errorMessage, errorDetails |-> errorDetails,
      retries |-> retries, retryTimeout |-> retryTimeout ]

\* Execute as it would be if every answer that is not an error status counted
\* as success.
ExecuteAcceptsOK(resp) ==
    IF resp.transportErr THEN "failed to send request"
    ELSE IF resp.status \notin {StatusOK, StatusNoContent} THEN "request failed with status"
    ELSE NoErr

\* TaskCompletion.Execute / TaskFailure.Execute: the error returned for a response.
Execute(resp) ==
    IF resp.transportErr THEN "failed to send request"
    ELSE IF resp.status # StatusNoContent THEN "request failed with status"
    ELSE NoErr

\* ProcessTask as it would be if tasks were processed one after the other
\* (processTask called without go).
ProcessTaskSerial(g) ==
    /\ g \in DOMAIN procs
    /\ ~crashed
    /\ procs[g].status = "start"
    /\ \A h \in 1..(g - 1) : procs[h].status \in {"dropped", "returned"}
    /\ LET task == procs[g].task
           lk   == Lookup(w, task.topicName)
       IN  IF ~lk.ok
             THEN procs' = [procs EXCEPT ![g].status = "dropped"]
             ELSE procs' = [procs EXCEPT ![g].status  = "running",
                                         ![g].handler = lk.handler,
                                         ![g].arg     = task,
                                         ![g].cb      = Callbacks(w, task)]
    /\ UNCHANGED <<w, regHist, confHist, unitVars, loopVars, cancelled, crashed>>

\* ProcessTask as it would be if the goroutines shared the loop variable: each
\* handler gets the last task launched.
ProcessTaskSharedTask(g) ==
    /\ g \in DOMAIN procs
    /\ ~crashed
    /\ procs[g].status = "start"
    /\ LET task == procs[Len(procs)].task
           lk   == Lookup(w, task.topicName)
       IN  IF ~lk.ok
             THEN procs' = [procs EXCEPT ![g].status = "dropped"]
             ELSE procs' = [procs EXCEPT ![g].status  = "running",
                                         ![g].handler = lk.handler,
                                         ![g].arg     = task,
                                         ![g].cb      = Callbacks(w, task)]
    /\ UNCHANGED <<w, regHist, confHist, unitVars, loopVars, cancelled, crashed>>

\* ProcessTask as it would be if a task without handler were reported as failed.
ProcessTaskFailsUnknown(g) ==
    /\ g \in DOMAIN procs
    /\ ~crashed
    /\ procs[g].status = "start"
    /\ LET task == procs[g].task
           lk   == Lookup(w, task.topicName)
       IN  IF ~lk.ok
             THEN procs' = [procs EXCEPT
                              ![g].status = "dropped",
                              ![g].calls = Append(@, FailRequest(Callbacks(w, task),
                                                  "No handler registered for topic", "", 0, 0))]
             ELSE procs' = [procs EXCEPT ![g].status  = "running",
                                         ![g].handler = lk.handler,
                                         ![g].arg     = task,
                                         ![g].cb      = Callbacks(w, task)]
    /\ UNCHANGED <<w, regHist, confHist, unitVars, loopVars, cancelled, crashed>>

\* ProcessTask as it would be if a handler were taken out of the map by the
\* task that uses it.
ProcessTaskConsumesHandler(g) ==
    /\ g \in DOMAIN procs
    /\ ~crashed
    /\ procs[g].status = "start"
    /\ LET task == procs[g].task
           lk   == Lookup(w, task.topicName)
       IN  IF ~lk.ok
             THEN /\ procs' = [procs EXCEPT ![g].status = "dropped"]
                  /\ w' = w
             ELSE /\ procs' = [procs EXCEPT ![g].status  = "running",
                                            ![g].handler = lk.handler,
                                            ![g].arg     = task,
                                            ![g].cb      = Callbacks(w, task)]
                  /\ w' = [w EXCEPT !.handlers =
                              [t \in DOMAIN w.handlers \ {task.topicName} |-> w.handlers[t]]]
    /\ UNCHANGED <<regHist, confHist, unitVars, loopVars, cancelled, crashed>>

\* The goroutine of task g runs processTask up to the call of handler.Handle.
\* A handlerAdapter logs first, with the logger the public Worker was given:
\* with a nil logger that call dereferences nil and panics.
ProcessTask(g) ==
    /\ g \in DOMAIN procs
    /\ ~crashed
    /\ procs[g].status = "start"
    /\ LET task == procs[g].task
           lk   == Lookup(w, task.topicName)
           nilDeref == lk.ok /\ IsAdapter(lk.handler) /\ w.adapterLogger = NilLogger
       IN  /\ IF ~lk.ok
                THEN procs' = [procs EXCEPT ![g].status = "dropped"]
                ELSE procs' = [procs EXCEPT
                                  ![g].status  = IF nilDeref THEN "nilDeref" ELSE "running",
                                  ![g].handler = lk.handler,
                                  ![g].arg     = task,
                                  ![g].cb      = Callbacks(w, task)]
           /\ crashed' = nilDeref
    /\ UNCHANGED <<w, regHist, confHist, unitVars, loopVars, cancelled>>

\* HandlerCall as it would be if the closures referred to a variable shared by
\* all goroutines, holding the task dispatched last.
HandlerCallLatestTask(g, kind, resp) ==
    /\ g \in DOMAIN procs
    /\ ~crashed
    /\ procs[g].status = "running"
    /\ HandlerCalls < MaxCalls
    /\ CanComeBack(resp, cancelled /\ ~IsAdapter(procs[g].handler))
    /\ LET cb  == Callbacks(w, procs[Len(procs)].task)
           req == IF kind = "complete"
                     THEN CompleteRequest(cb)
                     ELSE FailRequest(cb, "Task failed", "details", 1, 1000)
       IN  procs' = [procs EXCEPT ![g].calls = Append(@, req)]
    /\ UNCHANGED <<w, regHist, confHist, unitVars, loopVars, cancelled, crashed>>

\* HandlerCall as it would be if a task remembered that it has been resolved:
\* once a report has been made for it, later invocations send nothing.
HandlerCallOnce(g, kind, resp) ==
    /\ g \in DOMAIN procs
    /\ ~crashed
    /\ procs[g].status = "running"
    /\ HandlerCalls < MaxCalls
    /\ procs[g].calls = <<>>
    /\ CanComeBack(resp, cancelled /\ ~IsAdapter(procs[g].handler))
    /\ LET req == IF kind = "complete"
                     THEN CompleteRequest(procs[g].cb)
                     ELSE FailRequest(procs[g].cb, "Task failed", "details", 1, 1000)
       IN  procs' = [procs EXCEPT ![g].calls = Append(@, req)]
    /\ UNCHANGED <<w, regHist, confHist, unitVars, loopVars, cancelled, crashed>>

\* HandlerCall as it would be if a failure report were also written into the
\* task (a local field update next to the remote one).
HandlerCallMarksTask(g, kind, resp) ==
    /\ g \in DOMAIN procs
    /\ ~crashed
    /\ procs[g].status = "running"
    /\ HandlerCalls < MaxCalls
    /\ CanComeBack(resp, cancelled /\ ~IsAdapter(procs[g].handler))
    /\ IF kind = "complete"
          THEN procs' = [procs EXCEPT ![g].calls = Append(@, CompleteRequest(procs[g].cb))]
          ELSE procs' = [procs EXCEPT
                            ![g].calls = Append(@, FailRequest(procs[g].cb, "Task failed",
                                                               "details", 1, 1000)),
                            ![g].arg.errorMessage = "Task failed"]
    /\ UNCHANGED <<w, regHist, confHist, unitVars, loopVars, cancelled, crashed>>

\* A running handler reports: it calls complete or fail (a plain handler through
\* its closures, the user handler behind the adapter through the client, with
\* the id of its task). The closures send with the ctx of Start; the user
\* handler behind the adapter picks the context of its own requests. The error
\* Execute(resp) goes back to the handler; the worker keeps nothing of it.
HandlerCall(g, kind, resp) ==
    /\ g \in DOMAIN procs
    /\ ~crashed
    /\ procs[g].status = "running"
    /\ HandlerCalls < MaxCalls
    /\ CanComeBack(resp, cancelled /\ ~IsAdapter(procs[g].handler))
    /\ LET req == IF kind = "complete"
                     THEN CompleteRequest(procs[g].cb)
                     ELSE FailRequest(procs[g].cb, "Task failed", "details", 1, 1000)
       IN  procs' = [procs EXCEPT ![g].calls = Append(@, req)]
    /\ UNCHANGED <<w, regHist, confHist, unitVars, loopVars, cancelled, crashed>>

\* HandlerReturn as it would be if a handler's error cancelled the shared
\* context (as an error group does).
HandlerReturnCancels(g, err) ==
    /\ g \in DOMAIN procs
    /\ ~crashed
    /\ procs[g].status = "running"
    /\ procs' = [procs EXCEPT
                    ![g].status = IF IsAdapter(procs[g].handler) /\ err # NoErr
                                    THEN "failing" ELSE "returned",
                    ![g].err = err]
    /\ cancelled' = (cancelled \/ err # NoErr)
    /\ UNCHANGED <<w, regHist, confHist, unitVars, loopVars, crashed>>

\* HandlerReturn as it would be if a handler that returns nil without a report
\* of its own had its task completed for it.
HandlerReturnAutoCompletes(g, err) ==
    /\ g \in DOMAIN procs
    /\ ~crashed
    /\ procs[g].status = "running"
    /\ procs' = [procs EXCEPT
                    ![g].status = IF IsAdapter(procs[g].handler) /\ err # NoErr
                                    THEN "failing" ELSE "returned",
                    ![g].err = err,
                    ![g].calls = IF err = NoErr /\ procs[g].calls = <<>>
                                    THEN <<CompleteRequest(procs[g].cb)>> ELSE procs[g].calls]
    /\ UNCHANGED <<w, regHist, confHist, unitVars, loopVars, cancelled, crashed>>

\* A running handler returns err (NoErr for nil). Behind the adapter a non-nil
\* error of the user handler leads to the automatic failure report first.
HandlerReturn(g, err) ==
    /\ g \in DOMAIN procs
    /\ ~crashed
    /\ procs[g].status = "running"
    /\ procs' = [procs EXCEPT
                    ![g].status = IF IsAdapter(procs[g].handler) /\ err # NoErr
                                    THEN "failing" ELSE "returned",
                    ![g].err = err]
    /\ UNCHANGED <<w, regHist, confHist, unitVars, loopVars, cancelled, crashed>>

\* AdapterFail as it would be if the automatic report left the task no retries.
AdapterFailNoRetries(g, resp) ==
    /\ g \in DOMAIN procs
    /\ ~crashed
    /\ procs[g].status = "failing"
    /\ CanComeBack(resp, cancelled)
    /\ procs' = [procs EXCEPT
                    ![g].calls = Append(@, FailRequest(procs[g].cb, "Task processing failed",
                                                       procs[g].err, 0, 0)),
                    ![g].status = "returned"]
    /\ UNCHANGED <<w, regHist, confHist, unitVars, loopVars, cancelled, crashed>>

\* handlerAdapter.Handle reports the failure and returns the user handler's error;
\* processTask discards it. The report goes through the fail closure, with the
\* ctx of Start; its own error Execute(resp) is only logged.
AdapterFail(g, resp) ==
    /\ g \in DOMAIN procs
    /\ ~crashed
    /\ procs[g].status = "failing"
    /\ CanComeBack(resp, cancelled)
    /\ procs' = [procs EXCEPT
                    ![g].calls = Append(@, FailRequest(procs[g].cb, "Task processing failed",
                                                       procs[g].err, AutoFailRetries,
                                                       AutoFailRetryTimeout)),
                    ![g].status = "returned"]
    /\ UNCHANGED <<w, regHist, confHist, unitVars, loopVars, cancelled, crashed>>

\* A running handler blocks for ever.
HandlerBlock(g) ==
    /\ g \in DOMAIN procs
    /\ ~crashed
    /\ procs[g].status = "running"
    /\ procs' = [procs EXCEPT ![g].status = "blocked"]
    /\ UNCHANGED <<w, regHist, confHist, unitVars, loopVars, cancelled, crashed>>

\* A running handler panics. processTask has no recover, so the goroutine's
\* panic ends the process.
HandlerPanic(g) ==
    /\ g \in DOMAIN procs
    /\ ~crashed
    /\ procs[g].status = "running"
    /\ procs' = [procs EXCEPT ![g].status = "panicked"]
    /\ crashed' = TRUE
    /\ UNCHANGED <<w, regHist, confHist, unitVars, loopVars, cancelled>>

Goroutines == 1..Cardinality(EngineTasks)

Next ==
    \/ Start
    \/ LoopTop
    \/ CallFetchAndLock
    \/ \E resp \in FetchResponses : FetchReturn(resp)
    \/ Wake
    \/ Cancel
    \/ \E g \in Goroutines : ProcessTask(g)
    \/ \E g \in Goroutines, kind \in {"complete", "fail"}, resp \in ReportResponses :
          HandlerCall(g, kind, resp)
    \/ \E g \in Goroutines, err \in {NoErr, HandlerErr} : HandlerReturn(g, err)
    \/ \E g \in Goroutines, resp \in ReportResponses : AdapterFail(g, resp)
    \/ \E g \in Goroutines : HandlerBlock(g)
    \/ \E g \in Goroutines : HandlerPanic(g)

Spec == Init /\ [][Next]_vars

\* The Go scheduler runs the caller's goroutine and every launched goroutine;
\* every fetchAndLock call returns. Nothing forces a handler to make progress,
\* the caller to cancel, or a handler to panic.
Fairness ==
    /\ WF_vars(Start)
    /\ WF_vars(LoopTop)
    /\ WF_vars(CallFetchAndLock)
    /\ WF_vars(\E resp \in FetchResponses : FetchReturn(resp))
    /\ WF_vars(Wake)
    /\ \A g \in Goroutines : WF_vars(ProcessTask(g))

LiveSpec == Init /\ [][Next]_vars /\ Fairness

\* A worker that takes one task a fetch, while the engine has two to give.
OneByOneChain ==
    << Reg("t1", "raw", 60000, <<"x">>), Reg("t2", "adapter", 30000, <<>>),
       Set("SetMaxTasks", 1) >>

OneByOneInit ==
    \E id \in WorkerIDs :
        InitWith(Built(NewWorker(id, "custom"), OneByOneChain), HistOf(OneByOneChain),
                 ConfOf(NoConf(id), OneByOneChain))

OneByOneSpec == OneByOneInit /\ [][Next]_vars

\* RedeliverySpec: an engine with one task, which it gives out again when the
\* lock on it runs out while its handler is running and has reported nothing.
\* The handlers of this specification return; they neither block nor panic.
RedeliveryChain == << Reg("t1", "raw", 30000, <<>>) >>

RedeliveredTasks == { t \in EngineTasks : t.topicName = "t1" }

RedeliveryInit ==
    \E id \in WorkerIDs :
        InitOn(Built(NewWorker(id, "custom"), RedeliveryChain), HistOf(RedeliveryChain),
               ConfOf(NoConf(id), RedeliveryChain), RedeliveredTasks)

\* How many times a task has been given out again.
Redeliveries == Len(procs) + Cardinality(pending) - Cardinality(RedeliveredTasks)

\* The lock of lockDuration on the task of goroutine g runs out at the engine
\* while its handler runs and has reported nothing: the engine has the task to
\* give again.
LockExpires(g) ==
    /\ g \in DOMAIN procs
    /\ Redeliveries < MaxRedeliveries
    /\ procs[g].task \notin pending
    /\ procs[g].status = "running"
    /\ procs[g].calls = <<>>
    /\ pending' = pending \cup {procs[g].task}
    /\ UNCHANGED <<w, regHist, confHist, unitVars, pc, sleepFor, cancelled, crashed, fetchReq,
                   fetchCtxDone, procs, consecFails, dispatchedAfter>>

\* What comes back for a report in RedeliverySpec: the engine's 204, or nothing.
RedeliveryAnswers == { r \in ReportResponses : r.transportErr \/ r.status = StatusNoContent }

RedeliveryNext ==
    \/ Start
    \/ LoopTop
    \/ CallFetchAndLock
    \/ \E resp \in FetchResponses : FetchReturn(resp)
    \/ Wake
    \/ Cancel
    \/ \E g \in DOMAIN procs : LockExpires(g)
    \/ \E g \in DOMAIN procs : ProcessTask(g)
    \/ \E g \in DOMAIN procs, kind \in {"complete", "fail"}, resp \in RedeliveryAnswers :
          HandlerCall(g, kind, resp)
    \/ \E g \in DOMAIN procs, err \in {NoErr, HandlerErr} : HandlerReturn(g, err)

RedeliverySpec == RedeliveryInit /\ [][RedeliveryNext]_vars

(***************************************************************************)
(* ReportSpec: the complete / fail callbacks of the tasks, the answers of *)
(* the engine and the errors returned (ctx live)                           *)
(***************************************************************************)
\* A handler invokes the complete or the fail callback of its task: the closure
\* builds the request, Execute sends it and returns its error to the handler.
CallbackInvoked(task, kind, resp) ==
    /\ Len(reports) < MaxReports
    /\ LET cb  == Callbacks(w, task)
           req == IF kind = "complete"
                     THEN CompleteRequest(cb)
                     ELSE FailRequest(cb, "Task failed", "details", 1, 1000)
       IN  reports' = Append(reports,
                 [ by |-> "handler", req |-> req, resp |-> resp, err |-> Execute(resp),
                   logged |-> FALSE, ret |-> Execute(resp) ])
    /\ UNCHANGED <<workerVars, built, decoded, handled>>

\* handlerAdapter.Handle after the user handler returned an error: it calls fail
\* once, logs the error of the report if there is one, and returns the error of
\* the user handler.
AdapterReport(task, resp) ==
    /\ Len(reports) < MaxReports
    /\ reports' = Append(reports,
          [ by |-> "adapter",
            req |-> FailRequest(Callbacks(w, task), "Task processing failed",
                                HandlerErr, AutoFailRetries, AutoFailRetryTimeout),
            resp |-> resp, err |-> Execute(resp),
            logged |-> Execute(resp) # NoErr, ret |-> HandlerErr ])
    /\ UNCHANGED <<workerVars, built, decoded, handled>>

ReportNext ==
    \/ \E task \in EngineTasks, kind \in {"complete", "fail"}, resp \in ReportResponses :
          CallbackInvoked(task, kind, resp)
    \/ \E task \in EngineTasks, resp \in ReportResponses : AdapterReport(task, resp)

ReportSpec == RegInit /\ [][ReportNext]_vars

(***************************************************************************)
(* The Variable constructors, on their own                                 *)
(***************************************************************************)
\* Go values of type any: a kind and what the kind carries.  An int64 is held
\* as two digits in base 2^31 (hi, lo), so that values beyond 32 bits exist.
Nil == [kind |-> "nil"]
GoString(s) == [v |-> s, kind |-> "string"]
GoInt64(hi, lo) == [kind |-> "int64", hi |-> hi, lo |-> lo]
GoFloat64(whole, frac) == [kind |-> "float64", whole |-> whole, frac |-> frac]
GoBool(b) == [v |-> b, kind |-> "bool"]
GoMap(key, val) == [kind |-> "map", key |-> key, val |-> val]
GoSlice(elems) == [kind |-> "slice", elems |-> elems]
GoChan == [kind |-> "chan"]
\* A time.Time: the wall clock to the second as text, the rest of the second
\* and the zone offset.
GoTime(clock, nanos, zone) == [kind |-> "time", clock |-> clock, nanos |-> nanos, zone |-> zone]

\* Arguments the constructors are called with.
StringArgs == <<"", "ok">>
Int64Args == << GoInt64(0, 0), GoInt64(0, 42), GoInt64(0, 2147483647), GoInt64(1, 0) >>
Float64Args == << GoFloat64(0, 0), GoFloat64(3, 14) >>
TimeArgs ==
    << GoTime("2024-01-15T10:30:45", 0, "Z"),
       GoTime("2024-01-15T10:30:45", 123000000, "+02:00") >>
AnyArgs ==
    << GoMap("key", "value"), GoSlice(<<1, 2, 3>>), GoSlice(<<>>), Nil,
       GoString("ok"), GoChan >>

\* value.Format(time.RFC3339): "2006-01-02T15:04:05Z07:00", the fraction of
\* the second is not written.
FormatRFC3339(t) == t.clock \o t.zone

Quote(s) == "\"" \o s \o "\""

RECURSIVE JoinInts(_)
JoinInts(s) ==
    IF Len(s) = 0 THEN ""
    ELSE IF Len(s) = 1 THEN ToString(s[1])
    ELSE ToString(s[1]) \o "," \o JoinInts(Tail(s))

\* json.Marshal(value): (text, err).  A channel cannot be encoded.
Marshal(value) ==
    CASE value.kind = "map"    ->
             [ err |-> NoErr, text |-> "{" \o Quote(value.key) \o ":" \o Quote(value.val) \o "}" ]
      [] value.kind = "slice"  -> [ err |-> NoErr, text |-> "[" \o JoinInts(value.elems) \o "]" ]
      [] value.kind = "string" -> [ err |-> NoErr, text |-> Quote(value.v) ]
      [] value.kind = "nil"    -> [ err |-> NoErr, text |-> "null" ]
      [] OTHER                 -> [ err |-> "json: unsupported type", text |-> "" ]

Variable(value, type, valueInfo) == [ value |-> value, type |-> type, valueInfo |-> valueInfo ]
ValueInfo(objectTypeName) ==
    [ kind |-> "map", objectTypeName |-> objectTypeName,
      serializationDataFormat |-> "application/json" ]

StringVariable(value) == Variable(GoString(value), "String", Nil)
IntVariable(value) == Variable(value, "Integer", Nil)
LongVariable(value) == Variable(value, "Long", Nil)
DoubleVariable(value) == Variable(value, "Double", Nil)
BooleanVariable(value) == Variable(GoBool(value), "Boolean", Nil)
DateVariable(value) == Variable(GoString(FormatRFC3339(value)), "Date", Nil)

\* JSONVariable as it would be if the Object it builds had no valueInfo.
JSONVariableNoInfo(value) ==
    LET m == Marshal(value) IN
    IF m.err # NoErr
        THEN Variable(GoString("ERROR: failed to marshal JSON: " \o m.err), "String", Nil)
        ELSE Variable(GoString(m.text), "Object", Nil)

JSONVariable(value) ==
    LET m == Marshal(value) IN
    IF m.err # NoErr
        THEN Variable(GoString("ERROR: failed to marshal JSON: " \o m.err), "String", Nil)
        ELSE Variable(GoString(m.text), "Object", ValueInfo("java.util.LinkedHashMap"))

ListVariable(value) ==
    LET m == Marshal(value) IN
    IF m.err # NoErr
        THEN Variable(GoString("ERROR: failed to marshal list: " \o m.err), "String", Nil)
        ELSE Variable(GoString(m.text), "Object", ValueInfo("java.util.ArrayList"))

NullVariable == Variable(Nil, "Null", Nil)

\* A constructor is called; the call and the variable it gave are kept.
Construct(ctor, arg, out) ==
    /\ Len(built) < MaxBuilt
    /\ built' = Append(built, [ ctor |-> ctor, arg |-> arg, out |-> out ])
    /\ UNCHANGED <<workerVars, reports, decoded, handled>>

CallStringVariable ==
    \E i \in DOMAIN StringArgs :
        Construct("StringVariable", GoString(StringArgs[i]), StringVariable(StringArgs[i]))
CallIntVariable ==
    \E i \in DOMAIN Int64Args :
        Construct("IntVariable", Int64Args[i], IntVariable(Int64Args[i]))
CallLongVariable ==
    \E i \in DOMAIN Int64Args :
        Construct("LongVariable", Int64Args[i], LongVariable(Int64Args[i]))
CallDoubleVariable ==
    \E i \in DOMAIN Float64Args :
        Construct("DoubleVariable", Float64Args[i], DoubleVariable(Float64Args[i]))
CallBooleanVariable ==
    \E b \in BOOLEAN : Construct("BooleanVariable", GoBool(b), BooleanVariable(b))
CallDateVariable ==
    \E i \in DOMAIN TimeArgs :
        Construct("DateVariable", TimeArgs[i], DateVariable(TimeArgs[i]))
CallJSONVariable ==
    \E i \in DOMAIN AnyArgs :
        Construct("JSONVariable", AnyArgs[i], JSONVariable(AnyArgs[i]))
CallListVariable ==
    \E i \in DOMAIN AnyArgs :
        Construct("ListVariable", AnyArgs[i], ListVariable(AnyArgs[i]))
CallNullVariable == Construct("NullVariable", Nil, NullVariable)

VariableNext ==
    \/ CallStringVariable
    \/ CallIntVariable
    \/ CallLongVariable
    \/ CallDoubleVariable
    \/ CallBooleanVariable
    \/ CallDateVariable
    \/ CallJSONVariable
    \/ CallListVariable
    \/ CallNullVariable

VariableSpec == RegInit /\ [][VariableNext]_vars

(***************************************************************************)
(* ExternalTask.UnmarshalJSON, on its own                                  *)
(***************************************************************************)
\* The lockExpirationTime member of a task document: left out, null, a JSON
\* string or a JSON number.
NoLock == [kind |-> "absent", text |-> ""]
NullLock == [kind |-> "null", text |-> ""]
LockText(text) == [kind |-> "string", text |-> text]
LockNumber(text) == [kind |-> "number", text |-> text]

\* The task documents decoded: id, topicName and lockExpirationTime, the other
\* members well-formed.  written says how the time was written down.
TaskJSON(id, lock, written) ==
    [ id |-> id, topicName |-> "test", written |-> written, lockExpirationTime |-> lock ]

TaskDocuments ==
    << TaskJSON("task-1", LockText("2025-10-08T03:50:45.087+0000"), "camunda-millis"),
       TaskJSON("task-2", LockText("2025-10-08T03:50:45+0000"), "camunda"),
       TaskJSON("task-3", LockText("2025-10-08T03:50:45Z"), "rfc3339"),
       TaskJSON("task-4", LockText("2025-10-08T03:50:45.123456789Z"), "rfc3339nano"),
       TaskJSON("task-5", NoLock, "absent"),
       TaskJSON("task-6", LockText(""), "empty"),
       TaskJSON("task-7", NullLock, "absent"),
       TaskJSON("task-8", LockText("2025-10-08T03:50:45-07:00"), "rfc3339"),
       TaskJSON("task-9", LockText("2025-10-08 03:50:45"), "other"),
       TaskJSON("task-10", LockText("2025-10-08T03:50:45.087"), "other"),
       TaskJSON("task-11", LockText("tomorrow"), "other"),
       TaskJSON("task-12", LockNumber("1759895445"), "other") >>

RFC3339 == "2006-01-02T15:04:05Z07:00"
RFC3339Nano == "2006-01-02T15:04:05.999999999Z07:00"
formats ==
    << "2006-01-02T15:04:05.999-0700", "2006-01-02T15:04:05-0700", RFC3339, RFC3339Nano >>

Char(s, i) == SubSeq(s, i, i)
IsDigit(c) == c \in {"0", "1", "2", "3", "4", "5", "6", "7", "8", "9"}

\* "2006-01-02T15:04:05": the first 19 characters of every layout.
MatchesClock(s) ==
    /\ Len(s) >= 19
    /\ \A i \in 1..19 :
           IF i \in {5, 8} THEN Char(s, i) = "-"
           ELSE IF i = 11 THEN Char(s, i) = "T"
           ELSE IF i \in {14, 17} THEN Char(s, i) = ":"
           ELSE IsDigit(Char(s, i))

\* The number of digits of s from position i on.
RECURSIVE Digits(_, _)
Digits(s, i) ==
    IF i <= Len(s) /\ IsDigit(Char(s, i)) THEN 1 + Digits(s, i + 1) ELSE 0

\* The fraction of the second at position i: a period or comma and digits,
\* or nothing.  time.Parse takes it after the seconds whether the layout has
\* one or not, and takes any number of digits.
FractionLen(s, i) ==
    IF i < Len(s) /\ Char(s, i) \in {".", ","} /\ IsDigit(Char(s, i + 1))
        THEN 1 + Digits(s, i + 1)
        ELSE 0

\* "-0700" from position i to the end: a sign and four digits.
MatchesNumTZ(s, i) ==
    /\ Len(s) = i + 4
    /\ Char(s, i) \in {"+", "-"}
    /\ \A k \in (i + 1)..(i + 4) : IsDigit(Char(s, k))

\* "Z07:00" from position i to the end: Z, or a sign, hh:mm.
MatchesColonTZ(s, i) ==
    \/ Len(s) = i /\ Char(s, i) = "Z"
    \/ /\ Len(s) = i + 5
       /\ Char(s, i) \in {"+", "-"}
       /\ IsDigit(Char(s, i + 1)) /\ IsDigit(Char(s, i + 2))
       /\ Char(s, i + 3) = ":"
       /\ IsDigit(Char(s, i + 4)) /\ IsDigit(Char(s, i + 5))

\* time.Parse(layout, value) for the layouts of formats: (time, err).
Parse(layout, value) ==
    LET zoneAt == 20 + FractionLen(value, 20)
        numTZ  == SubSeq(layout, Len(layout) - 4, Len(layout)) = "-0700"
        ok     == /\ MatchesClock(value)
                  /\ IF numTZ THEN MatchesNumTZ(value, zoneAt)
                              ELSE MatchesColonTZ(value, zoneAt)
    IN  IF ok
            THEN [ err |-> NoErr,
                   time |-> [ kind |-> "time", frac |-> SubSeq(value, 20, zoneAt - 1),
                              clock |-> SubSeq(value, 1, 19),
                              zone |-> SubSeq(value, zoneAt, Len(value)) ] ]
            ELSE [ err |-> "parsing time", time |-> Nil ]

\* The loop over formats from the i-th on: the first layout that parses ends
\* it, otherwise the error of the last one is left.
RECURSIVE TryFormats(_, _)
TryFormats(value, i) ==
    LET r == Parse(formats[i], value) IN
    IF r.err = NoErr \/ i = Len(formats) THEN r ELSE TryFormats(value, i + 1)

ExternalTask(id, topicName, lockExpirationTime) ==
    [ ID |-> id, TopicName |-> topicName, LockExpirationTime |-> lockExpirationTime ]

\* UnmarshalJSON as it would be if only the last layout tried counted.
UnmarshalJSONLastFormat(data) ==
    LET lock == data.lockExpirationTime IN
    IF lock.kind = "number"
        THEN [ err |-> "json: cannot unmarshal number", task |-> ExternalTask("", "", Nil) ]
    ELSE IF lock.kind = "string" /\ lock.text # ""
        THEN LET r == Parse(formats[Len(formats)], lock.text) IN
             IF r.err # NoErr
                 THEN [ err |-> "failed to parse lockExpirationTime",
                        task |-> ExternalTask(data.id, data.topicName, Nil) ]
                 ELSE [ err |-> NoErr, task |-> ExternalTask(data.id, data.topicName, r.time) ]
    ELSE [ err |-> NoErr, task |-> ExternalTask(data.id, data.topicName, Nil) ]

\* ExternalTask.UnmarshalJSON: (task, err).  The document is decoded with
\* lockExpirationTime as a *string; a string that is there and not empty is
\* parsed with the layouts of formats in turn.
UnmarshalJSON(data) ==
    LET lock == data.lockExpirationTime IN
    IF lock.kind = "number"
        THEN [ err |-> "json: cannot unmarshal number", task |-> ExternalTask("", "", Nil) ]
    ELSE IF lock.kind = "string" /\ lock.text # ""
        THEN LET r == TryFormats(lock.text, 1) IN
             IF r.err # NoErr
                 THEN [ err |-> "failed to parse lockExpirationTime",
                        task |-> ExternalTask(data.id, data.topicName, Nil) ]
                 ELSE [ err |-> NoErr, task |-> ExternalTask(data.id, data.topicName, r.time) ]
    ELSE [ err |-> NoErr, task |-> ExternalTask(data.id, data.topicName, Nil) ]

\* json.Unmarshal of a task document; the document and the result are kept.
Decode(data) ==
    /\ Len(decoded) < MaxDecoded
    /\ decoded' = Append(decoded, [ data |-> data, out |-> UnmarshalJSON(data) ])
    /\ UNCHANGED <<workerVars, reports, built, handled>>

DecodeNext == \E i \in DOMAIN TaskDocuments : Decode(TaskDocuments[i])

DecodeSpec == RegInit /\ [][DecodeNext]_vars

(***************************************************************************)
(* The poll loop with the bodies of the fetch responses decoded            *)
(***************************************************************************)
BodyChain == << Reg("t1", "raw", 60000, <<"x">>), Reg("t2", "adapter", 30000, <<>>) >>

BodyInit ==
    \E id \in WorkerIDs :
        InitWith(Built(NewWorker(id, "custom"), BodyChain), HistOf(BodyChain),
                 ConfOf(NoConf(id), BodyChain))

\* How the engine's answer writes the lockExpirationTime of a task: in the
\* Camunda layout, or in a way no accepted layout matches.
BodyLocks == { TaskDocuments[1].lockExpirationTime, TaskDocuments[11].lockExpirationTime }

\* What can come back for a fetch: no response, or status 200 with a JSON array
\* of the tasks the engine has locked for the worker, locks[i] being the
\* lockExpirationTime written in the document of tasks[i].
BodyResponses ==
    { [transportErr |-> TRUE, status |-> 0, tasks |-> <<>>, locks |-> <<>>] }
    \cup UNION { { [transportErr |-> FALSE, status |-> StatusOK, tasks |-> b, locks |-> l] :
                     l \in [1..Len(b) -> BodyLocks] } :
                 b \in Batches(pending, w.maxTasks) }

\* The body of a response: one document for each task.
Body(resp) ==
    [ i \in 1..Len(resp.tasks) |->
        [ TaskJSON(resp.tasks[i].id, resp.locks[i], "engine")
            EXCEPT !.topicName = resp.tasks[i].topicName ] ]

\* The tasks of positions i.. of the response whose documents decode.
RECURSIVE Decodable(_, _)
Decodable(resp, i) ==
    IF i > Len(resp.tasks) THEN <<>>
    ELSE (IF UnmarshalJSON(Body(resp)[i]).err = NoErr THEN <<resp.tasks[i]>> ELSE <<>>)
         \o Decodable(resp, i + 1)

\* json.Unmarshal(body, &tasks) as it would be if an element that does not
\* decode were left out of the slice.
UnmarshalTasksSkipsBad(resp) == [ err |-> NoErr, tasks |-> Decodable(resp, 1) ]

\* json.Unmarshal(body, &tasks): UnmarshalJSON of every element; the error of
\* one element is the error of the call.
UnmarshalTasks(resp) ==
    IF \E i \in DOMAIN Body(resp) : UnmarshalJSON(Body(resp)[i]).err # NoErr
        THEN [ err |-> "failed to unmarshal tasks", tasks |-> <<>> ]
        ELSE [ err |-> NoErr, tasks |-> Decodable(resp, 1) ]

\* fetchAndLock with the decoding of the body.
FetchAndLockBody(resp) ==
    IF resp.transportErr
        THEN [err |-> "failed to send fetchAndLock request", tasks |-> <<>>]
    ELSE IF resp.status # StatusOK
        THEN [err |-> "fetchAndLock request failed with status", tasks |-> <<>>]
    ELSE UnmarshalTasks(resp)

\* fetchAndLock returns; the loop sleeps or dispatches and sleeps.  The tasks
\* of a response are locked at the engine whatever the worker does with it.
FetchReturnBody(resp) ==
    /\ pc = "fetching"
    /\ ~crashed
    /\ CanComeBack(resp, fetchCtxDone)
    /\ pending' = pending \ Range(resp.tasks)
    /\ LET r == FetchAndLockBody(resp) IN
         IF r.err # NoErr THEN
              /\ sleepFor' = w.pollInterval
              /\ consecFails' = Min(consecFails + 1, MaxFails)
              /\ UNCHANGED <<procs, dispatchedAfter>>
         ELSE IF Len(r.tasks) = 0 THEN
              /\ sleepFor' = w.pollInterval
              /\ consecFails' = 0
              /\ UNCHANGED <<procs, dispatchedAfter>>
         ELSE
              /\ procs' = procs \o [i \in 1..Len(r.tasks) |-> Spawn(r.tasks[i])]
              /\ dispatchedAfter' = consecFails
              /\ sleepFor' = BriefPause
              /\ consecFails' = 0
    /\ pc' = "sleeping"
    /\ UNCHANGED <<w, regHist, confHist, unitVars, cancelled, crashed, fetchReq, fetchCtxDone>>

BodyNext ==
    \/ Start
    \/ LoopTop
    \/ CallFetchAndLock
    \/ \E resp \in BodyResponses : FetchReturnBody(resp)
    \/ Wake
    \/ Cancel
    \/ \E g \in Goroutines : ProcessTask(g)
    \/ \E g \in Goroutines, kind \in {"complete", "fail"}, resp \in ReportResponses :
          HandlerCall(g, kind, resp)
    \/ \E g \in Goroutines, err \in {NoErr, HandlerErr} : HandlerReturn(g, err)
    \/ \E g \in Goroutines, resp \in ReportResponses : AdapterFail(g, resp)

BodySpec == BodyInit /\ [][BodyNext]_vars

(***************************************************************************)
(* handlerAdapter.Handle, on its own                                       *)
(***************************************************************************)
\* A request sent with the answer it got and the error Execute returned.
Sent(req, resp) == [ req |-> req, resp |-> resp, err |-> Execute(resp) ]

\* What the user handler behind the adapter does with its task before it
\* returns: nothing, or client.Complete(task.ID)...Execute() with some answer.
UserRequests(task) ==
    { <<>> } \cup { << Sent(CompleteRequest(Callbacks(w, task)), resp) >> : resp \in ReportResponses }

\* What the user handler returns: nil, an error of its own, or the error of
\* the request it made.
UserReturns(own) ==
    {NoErr, HandlerErr} \cup { own[i].err : i \in DOMAIN own }

\* handlerAdapter.Handle as it would be if the failure were reported only for
\* a task the user handler has sent nothing for.
HandleUnlessReported(task, own, ret, resp) ==
    [ taskID |-> task.id, own |-> own, ret |-> ret,
      auto |-> IF ret # NoErr /\ own = <<>>
                  THEN << Sent(FailRequest(Callbacks(w, task), "Task processing failed", ret,
                                           AutoFailRetries, AutoFailRetryTimeout), resp) >>
                  ELSE <<>> ]

\* handlerAdapter.Handle for a user handler that made the requests own and
\* returned ret: when ret is an error, fail is called once with it, whatever
\* own is, and resp is the answer to that.  ret is what Handle returns.
Handle(task, own, ret, resp) ==
    [ taskID |-> task.id, own |-> own, ret |-> ret,
      auto |-> IF ret # NoErr
                  THEN << Sent(FailRequest(Callbacks(w, task), "Task processing failed", ret,
                                           AutoFailRetries, AutoFailRetryTimeout), resp) >>
                  ELSE <<>> ]

\* One run of handlerAdapter.Handle, from the call of the user handler to the return.
HandleRun(task, own, ret, resp) ==
    /\ Len(handled) < MaxHandled
    /\ handled' = Append(handled, Handle(task, own, ret, resp))
    /\ UNCHANGED <<workerVars, reports, built, decoded>>

\* The answers to the adapter's fail that are followed: it fails in the
\* transport or it is accepted.  The error of that request is only logged.
FailAnswers == { r \in ReportResponses : r.transportErr \/ r.status = StatusNoContent }

AdapterNext ==
    \E task \in EngineTasks, resp \in FailAnswers :
        \E own \in UserRequests(task) :
            \E ret \in UserReturns(own) : HandleRun(task, own, ret, resp)

AdapterSpec == RegInit /\ [][AdapterNext]_vars

(***************************************************************************)
(* Helpers of the properties                                               *)
(***************************************************************************)
\* handler.Handle was called in goroutine g.
Invoked(g) ==
    procs[g].status \in {"running", "failing", "blocked", "returned", "panicked", "nilDeref"}
Registered(topicName) == topicName \in DOMAIN w.handlers
SomeDropped == \E g \in DOMAIN procs : procs[g].status = "dropped"
SomeReturnedErr == \E g \in DOMAIN procs : procs[g].status = "returned" /\ procs[g].err # NoErr

(***************************************************************************)
(* C1: Start returns only after the context has been cancelled: whatever   *)
(* fetch errors, empty batches, unregistered topics, handler errors and    *)
(* reports have occurred, Start has returned only if ctx is cancelled.     *)
(***************************************************************************)
C1_ReturnOnlyAfterCancel == pc = "returned" => cancelled

\* Start is still running, uncancelled, after a fetch error, a task of an
\* unregistered topic and a handler error with its failure report.
C1_Witness ==
    /\ ~cancelled /\ ~crashed
    /\ pc = "check"
    /\ consecFails >= 1
    /\ SomeDropped
    /\ \E g \in DOMAIN procs :
          procs[g].status = "returned" /\ procs[g].err # NoErr /\ procs[g].calls # <<>>

\* The loop sends a fetchAndLock request.
SendsFetch == pc = "selected" /\ pc' = "fetching"

(***************************************************************************)
(* C2: liveness of the poll loop: in every behaviour in which the context  *)
(* is never cancelled and no handler panics (the panic case is C4), the    *)
(* loop sends fetchAndLock again and again, whatever the fetches return    *)
(* and whatever the handlers do.                                           *)
(***************************************************************************)
C2_LoopLive == <>cancelled \/ <>crashed \/ []<><<SendsFetch>>_vars

\* A fetch is outstanding although the previous fetch failed, a task was
\* dropped and a handler returned an error.
C2_Witness ==
    /\ ~cancelled /\ ~crashed
    /\ pc = "fetching"
    /\ consecFails = MaxFails
    /\ SomeDropped
    /\ SomeReturnedErr

\* The goroutines a step launches.
Launched == (Len(procs) + 1)..Len(procs')

\* A fetch in which the engine hands out tasks launches one goroutine per task.
DispatchesFetched ==
    (pc = "fetching" /\ pending' # pending) =>
        /\ Len(procs') = Len(procs) + Cardinality(pending \ pending')
        /\ \A i \in DOMAIN procs : procs'[i] = procs[i]
        /\ { procs'[i].task : i \in Launched } = pending \ pending'
        /\ \A i \in Launched : procs'[i].status = "start"

(***************************************************************************)
(* C3: whatever the number N of failed fetches before it, a fetch that     *)
(* succeeds with a non-empty batch is dispatched: one goroutine is         *)
(* launched per task the engine handed out, and (no handler panicking,     *)
(* see C4) the handler of every such task with a registered topic is       *)
(* eventually invoked.                                                     *)
(***************************************************************************)
C3_DispatchAfterFailures ==
    /\ [][DispatchesFetched]_vars
    /\ \A g \in Goroutines :
          (g \in DOMAIN procs /\ Registered(procs[g].task.topicName))
              ~> (crashed \/ (g \in DOMAIN procs /\ Invoked(g)))

\* The latest batch was dispatched right after MaxFails or more failed
\* fetches and the handler of one of its tasks has been invoked.
C3_Witness ==
    /\ dispatchedAfter = MaxFails
    /\ ~crashed
    /\ \E g \in DOMAIN procs : Invoked(g)
    /\ \A g \in DOMAIN procs : Registered(procs[g].task.topicName) => Invoked(g)

\* The engine accepts a report.
OkReport == [transportErr |-> FALSE, status |-> StatusNoContent]

\* The poll loop can take the step it is at.
LoopCanStep ==
    /\ pc = "check" => ENABLED LoopTop
    /\ pc = "selected" => ENABLED CallFetchAndLock
    /\ pc = "fetching" => ENABLED (\E resp \in FetchResponses : FetchReturn(resp))
    /\ pc = "sleeping" => ENABLED Wake

\* Every goroutine but g can take the steps it is at.
OthersCanStep(g) ==
    \A h \in DOMAIN procs \ {g} :
        /\ procs[h].status = "start" => ENABLED ProcessTask(h)
        /\ procs[h].status = "running" => ENABLED HandlerReturn(h, NoErr)
        /\ (procs[h].status = "running" /\ HandlerCalls < MaxCalls)
              => ENABLED (\E resp \in ReportResponses : HandlerCall(h, "complete", resp))
        /\ procs[h].status = "failing"
              => ENABLED (\E resp \in ReportResponses : AdapterFail(h, resp))

(***************************************************************************)
(* C4: a panicking handler is contained: after a handler has panicked the  *)
(* poll loop can still take its next step and the other running handlers   *)
(* can still finish.                                                       *)
(***************************************************************************)
C4_PanicContained ==
    \A g \in DOMAIN procs :
        procs[g].status = "panicked" => (LoopCanStep /\ OthersCanStep(g))

\* The handler of goroutine g returns an error, or the adapter reports it.
ErrorReturnStep(g) ==
    \/ /\ procs[g].status = "running"
       /\ procs'[g].status \in {"returned", "failing"}
       /\ procs'[g].err # NoErr
    \/ /\ procs[g].status = "failing"
       /\ procs'[g].status = "returned"

(***************************************************************************)
(* C5: a handler returning an error affects only its own task: the step    *)
(* in which a handler returns an error (and, behind the adapter, the step  *)
(* that reports it) changes nothing but that goroutine: not the loop, not  *)
(* the context, not any other goroutine.                                   *)
(***************************************************************************)
C5_ErrorIsolated ==
    [][ \A g \in DOMAIN procs :
          ErrorReturnStep(g) =>
              /\ UNCHANGED <<w, regHist, confHist, unitVars, loopVars, cancelled, crashed>>
              /\ DOMAIN procs' = DOMAIN procs
              /\ \A h \in DOMAIN procs \ {g} : procs'[h] = procs[h] ]_vars

\* One handler has returned an error; another one has reported and returned
\* nil, and the loop is fetching again.
C5_Witness ==
    /\ ~cancelled /\ ~crashed
    /\ pc = "fetching"
    /\ \E g, h \in DOMAIN procs :
          /\ g # h
          /\ procs[g].status = "returned" /\ procs[g].err # NoErr
          /\ procs[h].status = "returned" /\ procs[h].err = NoErr
          /\ procs[h].calls # <<>>

(***************************************************************************)
(* C6: a handler that never returns blocks nothing else: while one         *)
(* handler is blocked, every other goroutine can take its next step        *)
(* (start, report, return) and the poll loop can take its next step.       *)
(***************************************************************************)
C6_BlockedHandlerIsolated ==
    \A g \in DOMAIN procs :
        (procs[g].status = "blocked" /\ ~crashed) => (LoopCanStep /\ OthersCanStep(g))

\* The first handler is blocked; a handler launched after it has reported and
\* returned, and the loop has sent a further fetch.
C6_Witness ==
    /\ ~crashed
    /\ Len(procs) = 2
    /\ procs[1].status = "blocked"
    /\ procs[2].status = "returned" /\ procs[2].calls # <<>>
    /\ pc = "fetching"
    /\ pending = {}

(***************************************************************************)
(* C7: every task the engine handed out has exactly one goroutine; if its  *)
(* topic is registered the goroutine invokes the handler registered for    *)
(* that topic with that very task and non-nil complete and fail closures,  *)
(* and if it is not registered no handler is invoked for it.               *)
(***************************************************************************)
C7_ExactDispatch ==
    /\ Len(procs) = Cardinality(EngineTasks \ pending)
    /\ { procs[g].task : g \in DOMAIN procs } = EngineTasks \ pending
    /\ \A g \in DOMAIN procs :
          LET t == procs[g].task IN
          /\ Invoked(g) =>
                /\ Registered(t.topicName)
                /\ procs[g].handler = w.handlers[t.topicName]
                /\ procs[g].arg = t
                /\ procs[g].cb.nonNil
          /\ ~Invoked(g) =>
                /\ procs[g].handler = NoHandler
                /\ procs[g].arg = NoTask
          /\ procs[g].status # "start" => (Invoked(g) <=> Registered(t.topicName))

\* Two tasks of different topics were fetched and each one's own handler was
\* invoked with it.
C7_Witness ==
    /\ Len(procs) = 2
    /\ Invoked(1) /\ Invoked(2)
    /\ procs[1].handler # procs[2].handler
    /\ procs[1].arg.id # procs[2].arg.id

\* What a step may do to a goroutine whose task has no handler.
DropsQuietly(g) ==
    /\ (procs[g].status = "start" /\ ~Registered(procs[g].task.topicName)
          /\ procs'[g] # procs[g]) =>
            /\ procs'[g] = [procs[g] EXCEPT !.status = "dropped"]
            /\ \A h \in DOMAIN procs \ {g} : procs'[h] = procs[h]
            /\ UNCHANGED <<w, regHist, confHist, unitVars, loopVars, cancelled, crashed>>
    /\ procs[g].status = "dropped" =>
            /\ procs'[g] = procs[g]
            /\ procs[g].calls = <<>> /\ procs[g].handler = NoHandler

(***************************************************************************)
(* C8: a task whose topic has no handler is dropped: the step that drops   *)
(* it changes only that goroutine's status, invokes no handler and sends   *)
(* no request, nothing happens for the task afterwards, and neither the    *)
(* other goroutines nor the loop are touched.                              *)
(***************************************************************************)
C8_UnknownTopicDropped == [][\A g \in DOMAIN procs : DropsQuietly(g)]_vars

\* The first task of a batch was dropped, the second one was handled and
\* reported, and the loop sleeps before its next fetch.
C8_Witness ==
    /\ ~crashed
    /\ Len(procs) = 2
    /\ procs[1].status = "dropped" /\ procs[1].calls = <<>>
    /\ procs[2].status = "returned" /\ procs[2].calls # <<>>
    /\ pc = "sleeping" /\ sleepFor = BriefPause

\* The RegisterHandler calls that named a topic, and the latest of them.
CallsFor(topicName) == { i \in DOMAIN regHist : regHist[i][1] = topicName }

LatestCallFor(topicName) ==
    CHOOSE i \in CallsFor(topicName) : \A j \in CallsFor(topicName) : j <= i

(***************************************************************************)
(* C9: last write wins: after any chain of RegisterHandler calls, looking  *)
(* up a topic yields the handler of the latest call for that topic, and    *)
(* not-found if no call named it (so a registration never changes the      *)
(* handler of another topic).                                              *)
(***************************************************************************)
C9_LastWriteWins ==
    \A t \in TopicNames :
        IF CallsFor(t) = {}
            THEN Lookup(w, t) = [ok |-> FALSE, handler |-> NoHandler]
            ELSE Lookup(w, t) = [ok |-> TRUE, handler |-> regHist[LatestCallFor(t)][2]]

\* A topic was registered twice with different handlers, and the other topic
\* never.
C9_Witness ==
    /\ Len(regHist) = 2
    /\ regHist[1][1] = regHist[2][1]
    /\ regHist[1][2] # regHist[2][2]
    /\ \E t \in TopicNames : CallsFor(t) = {}

(***************************************************************************)
(* C10: the topic name is a unique key of the subscription list: it holds  *)
(* at most one subscription per topic name, the one of the latest          *)
(* registration of that topic.                                             *)
(***************************************************************************)
C10_TopicUnique ==
    \A i, j \in DOMAIN w.topics :
        w.topics[i].topicName = w.topics[j].topicName => i = j


\* The subscriptions registered so far, one per RegisterHandler call, in call order.
SubscriptionsInOrder ==
    [i \in 1..Len(regHist) |-> TopicRequest(regHist[i][1], regHist[i][3], regHist[i][4])]

(***************************************************************************)
(* C11: the topic list of every fetchAndLock request holds the registered  *)
(* subscriptions, each with its lock duration and variables, in the order  *)
(* of their registration, and it is the full list on every poll.           *)
(***************************************************************************)
C11_TopicsInRegistrationOrder ==
    fetchReq # NoFetchReq => fetchReq.topics = SubscriptionsInOrder

\* A poll after a failed one is outstanding, listing two different topics.
C11_Witness ==
    /\ pc = "fetching"
    /\ consecFails >= 1
    /\ Len(fetchReq.topics) = 2
    /\ fetchReq.topics[1].topicName # fetchReq.topics[2].topicName

\* ctx is done while the loop is in the sleep that follows an empty fetch.
CancelledInEmptySleep ==
    /\ cancelled
    /\ pc = "sleeping"
    /\ consecFails = 0
    /\ sleepFor = w.pollInterval

\* From a sleep with ctx done the loop goes to its check when the sleep ends,
\* and from that check out of Start: no fetch and no further sleep in between.
StraightToReturn ==
    /\ (CancelledInEmptySleep /\ pc' # pc) => (pc' = "check" /\ sleepFor' = 0)
    /\ (cancelled /\ pc = "check" /\ pc' # pc) => pc' = "returned"
    /\ (CancelledInEmptySleep \/ (cancelled /\ pc = "check")) => fetchReq' = fetchReq

(***************************************************************************)
(* C12: when the context is cancelled while the loop is in the sleep that  *)
(* follows an empty fetch, that sleep (one poll interval at most) is the   *)
(* only delay left: the loop goes from it to the top-of-loop check and     *)
(* from there out of Start, sending no further fetchAndLock request, and   *)
(* Start does return, whether or not handlers are still running or         *)
(* blocked (a panic ends the process instead, C4).                         *)
(***************************************************************************)
C12_ReturnAfterEmptySleep ==
    /\ [][StraightToReturn]_vars
    /\ CancelledInEmptySleep ~> (pc = "returned" \/ crashed)

\* ctx is done during the sleep after an empty fetch while one handler is
\* blocked and another still running.
C12_Witness ==
    /\ CancelledInEmptySleep
    /\ ~crashed
    /\ \E g \in DOMAIN procs : procs[g].status = "blocked"
    /\ \E g \in DOMAIN procs : procs[g].status = "running"

\* The loop dispatches a batch.
DispatchesBatch == Len(procs') > Len(procs)

\* What the loop can still do once ctx is done: finish the iteration whose check
\* came before the cancellation.
AfterCancelStep ==
    cancelled =>
        /\ (pc = "check" /\ pc' # pc) => pc' = "returned"
        /\ SendsFetch => ~fetchCtxDone
        /\ DispatchesBatch => ~fetchCtxDone

(***************************************************************************)
(* C13, as stated: once the context has been cancelled no step of the loop *)
(* starts a fetchAndLock call and no step dispatches a batch.              *)
(***************************************************************************)
C13_NothingNewAfterCancel == [][cancelled => (~SendsFetch /\ ~DispatchesBatch)]_vars

(***************************************************************************)
(* C13, amended: once the context has been cancelled the loop begins no    *)
(* new iteration: a top-of-loop check made after the cancellation returns  *)
(* from Start. Only the iteration whose check came before the cancellation *)
(* is finished: at most one fetchAndLock call is started after the         *)
(* cancellation, and a batch dispatched after the cancellation was fetched *)
(* by a call started before it.                                            *)
(***************************************************************************)
C13_NoNewIterationAfterCancel == [][AfterCancelStep]_vars

\* Start has returned after one fetchAndLock call started with ctx done, which
\* failed.
C13_Witness ==
    /\ pc = "returned"
    /\ cancelled
    /\ fetchCtxDone
    /\ consecFails >= 1

\* The handler of goroutine g can report through its closures and have the
\* report accepted by the engine.
CanReport(g) ==
    /\ (procs[g].status = "running" /\ ~IsAdapter(procs[g].handler)
          /\ HandlerCalls < MaxCalls)
         => /\ ENABLED HandlerCall(g, "complete", OkReport)
            /\ ENABLED HandlerCall(g, "fail", OkReport)
    /\ procs[g].status = "failing" => ENABLED AdapterFail(g, OkReport)

(***************************************************************************)
(* C14: cancelling the context of the loop does not reach the tasks        *)
(* already dispatched: after the cancellation, and after Start returned, a *)
(* handler that is still at work can report through complete or fail and   *)
(* the report can be accepted by the engine, as before the cancellation.   *)
(***************************************************************************)
C14_ReportsSurviveCancel ==
    \A g \in DOMAIN procs : (cancelled /\ ~crashed) => CanReport(g)

\* Whatever the goroutines are doing, the caller's next step towards the return
\* is not held up.
CallerNotHeldUp ==
    /\ pc = "setup" => ENABLED Start
    /\ LoopCanStep

(***************************************************************************)
(* C15: termination on cancellation: once the context is cancelled, at any *)
(* point of the loop, Start returns, given that the outstanding            *)
(* fetchAndLock call comes back; no step of the caller towards the return  *)
(* waits for a goroutine, so Start returns with handlers still running or  *)
(* blocked (a panic ends the process instead, C4).                         *)
(***************************************************************************)
C15_ReturnsAfterCancel ==
    /\ []((cancelled /\ ~crashed) => CallerNotHeldUp)
    /\ cancelled ~> (pc = "returned" \/ crashed)

\* Start has returned while one handler is blocked and another still running.
C15_Witness ==
    /\ pc = "returned"
    /\ ~crashed
    /\ \E g \in DOMAIN procs : procs[g].status = "blocked"
    /\ \E g \in DOMAIN procs : procs[g].status = "running"

\* The positions in the call log of goroutine g of the adapter's own report.
AutoFails(g) ==
    { i \in DOMAIN procs[g].calls : procs[g].calls[i].errorMessage = "Task processing failed" }

\* The adapter's report for goroutine g, as the claim words it.
AutoFailAsClaimed(g) ==
    [ kind |-> "fail", taskID |-> procs[g].task.id, workerId |-> w.workerID,
      errorMessage |-> "Task processing failed", errorDetails |-> procs[g].err,
      retries |-> 3, retryTimeout |-> 30000 ]

(***************************************************************************)
(* C16: when a handler of the public Worker returns a non-nil error, fail  *)
(* is called for its task exactly once on its behalf, with the message     *)
(* "Task processing failed", the handler's error text as details, 3        *)
(* retries and a retry timeout of 30000 ms; it is the last report of the   *)
(* task. No such report is made for a handler that returns nil or has not  *)
(* returned.                                                               *)
(***************************************************************************)
C16_AutoFailOnError ==
    \A g \in DOMAIN procs :
        IF IsAdapter(procs[g].handler) /\ procs[g].status = "returned"
              /\ procs[g].err # NoErr
           THEN /\ AutoFails(g) = {Len(procs[g].calls)}
                /\ procs[g].calls[Len(procs[g].calls)] = AutoFailAsClaimed(g)
           ELSE AutoFails(g) = {}

\* A handler of the public Worker reported on its own, then returned an error,
\* and the adapter's report followed.
C16_Witness ==
    \E g \in DOMAIN procs :
        /\ IsAdapter(procs[g].handler)
        /\ procs[g].status = "returned"
        /\ procs[g].err = HandlerErr
        /\ Len(procs[g].calls) = 2
        /\ procs[g].calls[2].errorDetails = HandlerErr

(***************************************************************************)
(* C17: the callbacks are bound to their own task: every request made      *)
(* through the complete or fail callback of a task carries the id of that  *)
(* task and the workerID of the worker, however the goroutines of the      *)
(* tasks interleave.                                                       *)
(***************************************************************************)
C17_CallbacksBoundToTask ==
    \A g \in DOMAIN procs : \A i \in DOMAIN procs[g].calls :
        /\ procs[g].calls[i].taskID = procs[g].task.id
        /\ procs[g].calls[i].workerId = w.workerID

\* Two tasks of one batch have both reported, the one launched second before
\* the one launched first had finished.
C17_Witness ==
    /\ Len(procs) = 2
    /\ procs[1].status = "running" /\ procs[1].calls # <<>>
    /\ procs[2].status = "returned" /\ procs[2].calls # <<>>
    /\ procs[1].calls[1].taskID # procs[2].calls[1].taskID

\* Whatever has been reported for its task already, the handler of goroutine g
\* can invoke either callback, and the adapter its automatic report.
CanInvokeAgain(g) ==
    /\ (procs[g].status = "running" /\ HandlerCalls < MaxCalls) =>
          \A kind \in {"complete", "fail"} :
              ENABLED (\E resp \in ReportResponses : HandlerCall(g, kind, resp))
    /\ procs[g].status = "failing" =>
          ENABLED (\E resp \in ReportResponses : AdapterFail(g, resp))

\* A step leaves the requests already sent for goroutine g alone and sends at
\* most one more.
OneRequestPerStep(g) ==
    /\ Len(procs'[g].calls) \in {Len(procs[g].calls), Len(procs[g].calls) + 1}
    /\ SubSeq(procs'[g].calls, 1, Len(procs[g].calls)) = procs[g].calls

(***************************************************************************)
(* C18: the worker keeps no "resolved" state per task: however many        *)
(* reports have been made for a task through either callback, a further    *)
(* invocation of complete or fail is carried out, and each invocation      *)
(* sends exactly one request, added to those sent before.                  *)
(***************************************************************************)
C18_NoResolvedState ==
    /\ [](\A g \in DOMAIN procs : ~crashed => CanInvokeAgain(g))
    /\ [][\A g \in DOMAIN procs : OneRequestPerStep(g)]_vars

\* A handler has completed its task and then reported the same task as failed.
C18_Witness ==
    \E g \in DOMAIN procs :
        /\ ~IsAdapter(procs[g].handler)
        /\ Len(procs[g].calls) = 2
        /\ procs[g].calls[1].kind = "complete"
        /\ procs[g].calls[2].kind = "fail"

\* The sleep the loop enters when fetchAndLock has returned: one poll interval
\* unless a batch was dispatched, the fixed pause after a dispatch.
DelayByOutcome ==
    (pc = "fetching" /\ pc' # pc) =>
        /\ pc' = "sleeping"
        /\ sleepFor' = IF DispatchesBatch THEN 1000 ELSE w.pollInterval

(***************************************************************************)
(* C19: the delay after a fetch is chosen by its outcome: after a failed   *)
(* or an empty fetch the loop sleeps exactly the configured pollInterval,  *)
(* after a fetch that brought tasks it sleeps the same fixed pause (one    *)
(* second) whatever pollInterval is.                                      *)
(***************************************************************************)
C19_DelayByOutcome == [][DelayByOutcome]_vars

\* With pollInterval set to 3 s, the loop sleeps 3 s after a failed fetch that
\* followed a dispatch and its fixed pause.
C19_Witness ==
    /\ pc = "sleeping"
    /\ w.pollInterval = 3000
    /\ sleepFor = 3000
    /\ consecFails >= 1
    /\ Len(procs) >= 1

\* The task limit the caller has configured: the value last given to
\* SetMaxTasks, 10 when it was never called.
ConfiguredMaxTasks == IF confHist.maxTasks = 0 THEN 10 ELSE confHist.maxTasks

\* The poll interval the caller has configured: the value last given to
\* SetPollInterval, 5 s when it was never called.
ConfiguredPollInterval == IF confHist.pollInterval = 0 THEN 5000 ELSE confHist.pollInterval

\* A setter gives back its worker with its own setting changed and nothing else.
SettersChangeOwnSetting ==
    /\ \A n \in MaxTasksValues \cup {1} : SetMaxTasks(w, n) = [w EXCEPT !.maxTasks = n]
    /\ \A d \in PollIntervals \cup {1} : SetPollInterval(w, d) = [w EXCEPT !.pollInterval = d]

(***************************************************************************)
(* C20: every fetchAndLock request carries the workerID given to New and   *)
(* the configured maxTasks. maxTasks is 10 and pollInterval is 5 s unless  *)
(* SetMaxTasks / SetPollInterval were called, and then the values last     *)
(* given to them; each setter changes its own setting only and leaves the  *)
(* other setting, the workerID and the registrations as they were.         *)
(***************************************************************************)
C20_RequestCarriesConfiguration ==
    /\ w.workerID = confHist.workerID
    /\ w.maxTasks = ConfiguredMaxTasks
    /\ w.pollInterval = ConfiguredPollInterval
    /\ w.topics = SubscriptionsInOrder
    /\ SettersChangeOwnSetting
    /\ fetchReq # NoFetchReq =>
          /\ fetchReq.workerId = confHist.workerID
          /\ fetchReq.maxTasks = ConfiguredMaxTasks

\* A fetch is outstanding for a worker whose poll interval was set to 3 s
\* before its second registration and whose task limit was set to 20 after it.
C20_Witness ==
    /\ pc = "fetching"
    /\ fetchReq.maxTasks = 20
    /\ w.pollInterval = 3000
    /\ Len(w.topics) = 2

\* The workerIDs of all requests sent so far: the last fetchAndLock request
\* and the complete and fail requests of every task.
RequestWorkerIDs ==
    (IF fetchReq = NoFetchReq THEN {} ELSE {fetchReq.workerId})
    \cup UNION { { procs[g].calls[i].workerId : i \in DOMAIN procs[g].calls } :
                 g \in DOMAIN procs }

(***************************************************************************)
(* C21: the identity of the worker is set once, by New, and never changes: *)
(* no step changes w.workerID, and every fetchAndLock, complete and fail   *)
(* request the worker sends carries the workerID that was given to New.    *)
(***************************************************************************)
C21_IdentityStable ==
    /\ [](w.workerID = confHist.workerID)
    /\ [](RequestWorkerIDs \subseteq {confHist.workerID})
    /\ [][w'.workerID = w.workerID]_vars

\* The worker has polled again after a complete and a fail request were sent
\* for its tasks.
C21_Witness ==
    /\ pc = "fetching"
    /\ \E g \in DOMAIN procs : \E i \in DOMAIN procs[g].calls :
          procs[g].calls[i].kind = "complete"
    /\ \E g \in DOMAIN procs : \E i \in DOMAIN procs[g].calls :
          procs[g].calls[i].kind = "fail"

\* The invocation recorded in e succeeded exactly when the engine answered 204,
\* and its caller got what the claim says.
ReportedAsClaimed(e) ==
    /\ (e.err = NoErr) <=> (~e.resp.transportErr /\ e.resp.status = 204)
    /\ e.by = "handler" => (e.ret = e.err /\ ~e.logged)
    /\ e.by = "adapter" => (e.ret = HandlerErr /\ (e.logged <=> e.err # NoErr))

\* An invocation sends one request, whatever the answer to it and to the
\* requests before it.
OneRequestPerInvocation ==
    /\ Len(reports') = Len(reports) + 1
    /\ SubSeq(reports', 1, Len(reports)) = reports

(***************************************************************************)
(* C22: a complete or fail report succeeds exactly when the engine answers *)
(* with status 204; on a transport error or any other status the callback  *)
(* returns an error to its caller. Nothing is retried: each invocation of  *)
(* a callback sends exactly one request, and when the automatic failure    *)
(* report of the public Worker fails, the error is logged, the report is   *)
(* not repeated and the adapter returns the error of the user handler.     *)
(***************************************************************************)
C22_ReportOutcome ==
    /\ [](\A i \in DOMAIN reports : ReportedAsClaimed(reports[i]))
    /\ [][OneRequestPerInvocation]_reports

\* A completion was accepted with 204, a failure report answered with 200 came
\* back to the handler as an error, and an automatic failure report that could
\* not be sent was logged.
C22_Witness ==
    /\ Len(reports) = 3
    /\ reports[1].req.kind = "complete" /\ reports[1].resp.status = 204
         /\ reports[1].err = NoErr
    /\ reports[2].by = "handler" /\ reports[2].req.kind = "fail"
         /\ reports[2].resp.status = 200 /\ reports[2].ret # NoErr
    /\ reports[3].by = "adapter" /\ reports[3].resp.transportErr /\ reports[3].logged

\* A step leaves the task of goroutine g, and the copy its handler was given,
\* as they are.
TaskUntouched(g) ==
    /\ procs'[g].task = procs[g].task
    /\ Invoked(g) => procs'[g].arg = procs[g].arg

(***************************************************************************)
(* C23: the worker never mutates a fetched task: the task given to the     *)
(* handler equals the task the fetch returned in every field (id, topic,   *)
(* variables, business key, process instance, error message), and no step  *)
(* of the worker - dispatching, complete, fail, the automatic failure      *)
(* report - changes a field of it.                                         *)
(***************************************************************************)
C23_TaskNeverMutated ==
    /\ [](\A g \in DOMAIN procs :
            /\ procs[g].task \in EngineTasks
            /\ Invoked(g) => procs[g].arg = procs[g].task)
    /\ [][\A g \in DOMAIN procs : TaskUntouched(g)]_vars

\* A handler has reported its task, which carries variables, as completed and
\* as failed, and has returned.
C23_Witness ==
    \E g \in DOMAIN procs :
        /\ procs[g].status = "returned"
        /\ Len(procs[g].calls) = 2
        /\ procs[g].calls[2].kind = "fail"
        /\ procs[g].arg.variables # {}
        /\ procs[g].arg = procs[g].task

\* What goroutine g found in the registry is what the registry holds now.
ResolvedAgainstRegistry(g) ==
    LET lk == Lookup(w, procs[g].task.topicName) IN
        /\ Invoked(g) => (lk.ok /\ procs[g].handler = lk.handler)
        /\ procs[g].status = "dropped" => ~lk.ok

(***************************************************************************)
(* C24: once Start is running the registry is read-only for the worker:    *)
(* no step of the poll loop, of fetchAndLock or of a dispatched task       *)
(* changes the handler map or the subscription list, so all tasks, however *)
(* many run at once, resolve their handler against the same registry.      *)
(***************************************************************************)
C24_RegistryReadOnly ==
    /\ [][pc # "setup" => w' = w]_vars
    /\ [](\A g \in DOMAIN procs : ResolvedAgainstRegistry(g))

\* Two tasks of one batch have looked up their handlers and run at once,
\* while the loop is fetching again.
C24_Witness ==
    /\ pc = "fetching"
    /\ Len(procs) = 2
    /\ procs[1].status = "running"
    /\ procs[2].status = "running"

(***************************************************************************)
(* C25: a worker made with a nil logger uses a default logger: its logger  *)
(* is never nil, and no task processing, the handler adapter of the public *)
(* Worker included, fails on a nil logger.                                 *)
(***************************************************************************)
C25_NilLoggerSafe ==
    /\ w.logger # NilLogger
    /\ \A g \in DOMAIN procs : procs[g].status # "nilDeref"

(***************************************************************************)
(* C26: every subscription in the registry, and therefore every topic      *)
(* entry of every fetchAndLock request, has a lock duration greater than   *)
(* 0.                                                                      *)
(***************************************************************************)
C26_LockDurationPositive ==
    /\ \A i \in DOMAIN w.topics : w.topics[i].lockDuration > 0
    /\ \A i \in DOMAIN FetchRequest(w).topics :
           FetchRequest(w).topics[i].lockDuration > 0

(***************************************************************************)
(* C27: a subscription registered with an empty variable list asks for no  *)
(* variables: its topic entry in the body of the fetchAndLock request      *)
(* carries an empty list of variable names, which sets it apart from an    *)
(* entry that does not restrict variables (one without the key).           *)
(***************************************************************************)
RestrictsVariables(entry) == "variables" \in DOMAIN entry

C27_EmptyListSentAsEmpty ==
    pc = "fetching" =>
        \A i \in DOMAIN w.topics :
            w.topics[i].variables = <<>> =>
                /\ RestrictsVariables(JSON(fetchReq).topics[i])
                /\ JSON(fetchReq).topics[i].variables = <<>>

\* C27 as the code has it: the entry of a subscription carries a variables
\* key exactly when its list is not empty, and then it is the registered
\* list; the entry of an empty list has no key and restricts nothing.
C27_EmptyListOmitted ==
    pc = "fetching" =>
        /\ DOMAIN JSON(fetchReq).topics = DOMAIN w.topics
        /\ \A i \in DOMAIN w.topics :
               LET entry == JSON(fetchReq).topics[i] IN
               /\ RestrictsVariables(entry) <=> w.topics[i].variables # <<>>
               /\ RestrictsVariables(entry) => entry.variables = w.topics[i].variables

\* A request is out whose body has an entry without the key, of a
\* subscription registered with an empty list, next to an entry with a list.
C27_Witness ==
    /\ pc = "fetching"
    /\ \E i \in DOMAIN w.topics :
           /\ w.topics[i].variables = <<>>
           /\ ~RestrictsVariables(JSON(fetchReq).topics[i])
    /\ \E j \in DOMAIN w.topics :
           /\ RestrictsVariables(JSON(fetchReq).topics[j])
           /\ JSON(fetchReq).topics[j].variables = <<"x">>

\* The loop's step on a failed fetch: nothing is dispatched, the failure is
\* taken note of and the loop sleeps one poll interval.
HandledAsFailure ==
    /\ procs' = procs
    /\ pending' = pending
    /\ consecFails' = Min(consecFails + 1, MaxFails)
    /\ pc' = "sleeping"
    /\ sleepFor' = w.pollInterval

\* The loop's step on a successful fetch: every task of the answer is
\* dispatched, and no failure is taken note of.
HandledAsSuccess(resp) ==
    /\ Len(procs') = Len(procs) + Len(resp.tasks)
    /\ \A i \in DOMAIN resp.tasks : procs'[Len(procs) + i].task = resp.tasks[i]
    /\ consecFails' = 0
    /\ pc' = "sleeping"

Is2xx(status) == status >= 200 /\ status < 300

FailuresAlikeBy2xx ==
    \A resp \in FetchResponses :
        FetchReturn(resp) =>
            IF resp.transportErr \/ ~Is2xx(resp.status)
                THEN HandledAsFailure
                ELSE HandledAsSuccess(resp)

FailuresAlikeBy200 ==
    \A resp \in FetchResponses :
        FetchReturn(resp) =>
            IF resp.transportErr \/ resp.status # 200
                THEN HandledAsFailure
                ELSE HandledAsSuccess(resp)

(***************************************************************************)
(* C28: all fetch failures are handled alike: on a transport error and on  *)
(* a non-2xx status no task is dispatched and the loop sleeps pollInterval *)
(* before it fetches again; a fetch answered with a 2xx status is taken    *)
(* for a success.                                                          *)
(***************************************************************************)
C28_FailuresAlike2xx == [][FailuresAlikeBy2xx]_vars

\* C28 as the code has it: the failures are a transport error and every
\* status other than 200, 2xx or not, and they are handled alike; only a
\* fetch answered with status 200 is taken for a success.
C28_FailuresAlike200 ==
    /\ [][FailuresAlikeBy200]_vars
    /\ [](pc = "sleeping" /\ ~crashed => ENABLED Wake)

\* A fetch has failed after an earlier one had brought a task, while the
\* engine still had a task to give: nothing more was dispatched and the loop
\* sleeps the poll interval.
C28_Witness ==
    /\ pc = "sleeping"
    /\ consecFails = 1
    /\ sleepFor = w.pollInterval
    /\ Len(procs) = 1
    /\ pending # {}

\* The shape of value that goes with a type tag.
ShapeOf(type) ==
    CASE type = "String"  -> "string"
      [] type = "Integer" -> "int64"
      [] type = "Long"    -> "int64"
      [] type = "Double"  -> "float64"
      [] type = "Boolean" -> "bool"
      [] type = "Date"    -> "string"
      [] type = "Object"  -> "string"
      [] type = "Null"    -> "nil"

\* The tag each plain constructor is named after.
TagOf(ctor) ==
    CASE ctor = "StringVariable"  -> "String"
      [] ctor = "IntVariable"     -> "Integer"
      [] ctor = "LongVariable"    -> "Long"
      [] ctor = "DoubleVariable"  -> "Double"
      [] ctor = "BooleanVariable" -> "Boolean"
      [] ctor = "DateVariable"    -> "Date"
      [] ctor = "NullVariable"    -> "Null"
      [] OTHER                    -> "Object"

\* A date as text: the clock to the second followed by the zone.
IsDateText(v) ==
    \E i \in DOMAIN TimeArgs : v = TimeArgs[i].clock \o TimeArgs[i].zone

\* What is common to every constructor: the tag goes with the shape of the
\* value, Null goes with nil and with NullVariable only.
TagFitsValue(e) ==
    /\ e.out.value.kind = ShapeOf(e.out.type)
    /\ (e.out.type = "Null") <=> (e.ctor = "NullVariable")
    /\ (e.out.type = "Null") => e.out.value = Nil
    /\ e.out.type = "Date" => IsDateText(e.out.value.v)

\* The plain constructors: the tag they are named after, the value given.
PlainAsClaimed(e) ==
    /\ e.out.type = TagOf(e.ctor)
    /\ e.ctor \in {"StringVariable", "IntVariable", "LongVariable", "DoubleVariable",
                   "BooleanVariable"} => e.out.value = e.arg
    /\ e.out.valueInfo = Nil

\* An Object with the JSON text of the argument and a valueInfo.
ObjectOf(e) ==
    /\ e.out.type = "Object"
    /\ e.out.value = GoString(Marshal(e.arg).text)
    /\ Marshal(e.arg).err = NoErr
    /\ e.out.valueInfo # Nil
    /\ e.out.valueInfo.serializationDataFormat = "application/json"

\* The variable given when the argument cannot be encoded: a String that
\* carries the error, without valueInfo.
ErrorStringOf(e) ==
    /\ e.out.type = "String"
    /\ e.out.value.kind = "string"
    /\ e.out.valueInfo = Nil

IsJSONCtor(e) == e.ctor \in {"JSONVariable", "ListVariable"}

(***************************************************************************)
(* C29: every variable built by a constructor has a type tag consistent    *)
(* with its value: the String, Integer, Long, Double, Boolean and Date     *)
(* constructors pair their tag with a value of that shape, NullVariable    *)
(* pairs Null with nil and no other constructor gives Null, and            *)
(* JSONVariable gives an Object with the JSON text of its argument and a   *)
(* valueInfo that is not nil.                                              *)
(***************************************************************************)
C29_TagConsistentAlwaysObject ==
    \A i \in DOMAIN built :
        /\ TagFitsValue(built[i])
        /\ ~IsJSONCtor(built[i]) => PlainAsClaimed(built[i])
        /\ built[i].ctor = "JSONVariable" => ObjectOf(built[i])

\* C29 as the code has it: JSONVariable (and ListVariable) give the Object
\* when the argument can be encoded, and a String with the error otherwise;
\* the rest is as claimed.
C29_TagConsistent ==
    \A i \in DOMAIN built :
        /\ TagFitsValue(built[i])
        /\ ~IsJSONCtor(built[i]) => PlainAsClaimed(built[i])
        /\ IsJSONCtor(built[i]) =>
               IF Marshal(built[i].arg).err = NoErr
                   THEN ObjectOf(built[i])
                   ELSE ErrorStringOf(built[i])

\* JSONVariable was called with the map of the tests and gave the Object with
\* the text {"key":"value"}, and was called with a channel and gave a String.
C29_Witness ==
    /\ Len(built) = 2
    /\ built[1].ctor = "JSONVariable" /\ built[1].arg = GoMap("key", "value")
    /\ built[1].out.type = "Object"
    /\ built[1].out.value.v = "{\"key\":\"value\"}"
    /\ built[2].ctor = "JSONVariable" /\ built[2].arg = GoChan
    /\ built[2].out.type = "String"

\* The ways of writing lockExpirationTime that decoding accepts.
AcceptedLayouts == {"camunda-millis", "camunda", "rfc3339", "rfc3339nano"}

DecodedAsClaimed(e) ==
    IF e.data.written \in AcceptedLayouts \cup {"absent", "empty"}
        THEN /\ e.out.err = NoErr
             /\ e.out.task.ID = e.data.id /\ e.out.task.ID # ""
             /\ e.out.task.TopicName = e.data.topicName /\ e.out.task.TopicName # ""
             /\ (e.out.task.LockExpirationTime # Nil) <=> (e.data.written \in AcceptedLayouts)
        ELSE e.out.err # NoErr

(***************************************************************************)
(* C30: decoding a fetched task succeeds, with id and topic name set, when *)
(* its lockExpirationTime is absent, empty or written in one of the four   *)
(* accepted layouts (Camunda with milliseconds, Camunda without, RFC3339,  *)
(* RFC3339Nano), and fails with an error when lockExpirationTime is there, *)
(* not empty and in none of them.                                          *)
(***************************************************************************)
C30_DecodeByLayout == \A i \in DOMAIN decoded : DecodedAsClaimed(decoded[i])

\* The Camunda document of the tests was decoded, with its time, and a
\* document with a time without zone was refused.
C30_Witness ==
    /\ Len(decoded) = 2
    /\ decoded[1].data.lockExpirationTime = LockText("2025-10-08T03:50:45.087+0000")
    /\ decoded[1].out.err = NoErr
    /\ decoded[1].out.task.LockExpirationTime.frac = ".087"
    /\ decoded[1].out.task.LockExpirationTime.zone = "+0000"
    /\ decoded[2].data.lockExpirationTime = LockText("2025-10-08T03:50:45.087")
    /\ decoded[2].out.err # NoErr

\* The steps of the one loop of Start, in the order of its body.
LoopOrder ==
    { <<"setup", "check">>, <<"check", "selected">>, <<"check", "returned">>,
      <<"selected", "fetching">>, <<"fetching", "sleeping">>, <<"sleeping", "check">> }

\* A fetch that comes back is over before the loop sleeps: its batch, if it has
\* one, has been handed to dispatch, one goroutine a task, in that step.
BatchHandedOver ==
    (pc = "fetching" /\ pc' # pc) =>
        /\ pc' = "sleeping"
        /\ sleepFor' > 0
        /\ \E resp \in FetchResponses :
              /\ CanComeBack(resp, fetchCtxDone)
              /\ Len(procs') = Len(procs) + Len(FetchAndLock(resp).tasks)
              /\ \A i \in DOMAIN FetchAndLock(resp).tasks :
                     procs'[Len(procs) + i].task = FetchAndLock(resp).tasks[i]

\* A fetch is sent only from the top of an iteration, which is reached only
\* from the start of Start or from the end of a sleep.
FetchAfterPause ==
    /\ (pc' = "fetching" /\ pc' # pc) => (pc = "selected" /\ sleepFor = 0)
    /\ (pc' = "selected" /\ pc' # pc) => pc = "check"
    /\ (pc' = "check" /\ pc' # pc) => pc \in {"setup", "sleeping"}

(***************************************************************************)
(* C31: the poll driver is strictly sequential: at most one fetchAndLock    *)
(* call of a Start loop is outstanding at any time, and the next fetch      *)
(* starts only after the previous one has returned, its batch (if any) has  *)
(* been handed to dispatch, and the pause that follows has ended.           *)
(***************************************************************************)
C31_SequentialDriver ==
    /\ [][pc' # pc => <<pc, pc'>> \in LoopOrder]_vars
    /\ [][BatchHandedOver]_vars
    /\ [][FetchAfterPause]_vars
    /\ [](pc = "fetching" => sleepFor = 0)

\* The second fetch of a run is outstanding: the first one has returned, its
\* task has been dispatched and the pause after it is over.
C31_Witness ==
    /\ pc = "fetching"
    /\ sleepFor = 0
    /\ Len(procs) = 1
    /\ dispatchedAfter = 0

\* A request is sent for the task of goroutine g in this step.
SendsReport(g) == procs'[g].calls # procs[g].calls

\* The user handler of g is executing: whatever is sent now, it sends.
InHandler(g) == procs[g].status = "running"

\* The only request that does not come from a user handler: the fail of the
\* handlerAdapter, after its user handler has returned an error.
AdapterSends(g) ==
    /\ procs[g].status = "failing"
    /\ IsAdapter(procs[g].handler)
    /\ procs[g].err # NoErr

NoReportOfItsOwn ==
    \A g \in DOMAIN procs :
        /\ SendsReport(g) => (InHandler(g) \/ AdapterSends(g))
        /\ (SendsReport(g) /\ ~IsAdapter(procs[g].handler)) => InHandler(g)
        /\ (InHandler(g) /\ procs'[g].status # "running") => ~SendsReport(g)
        /\ procs[g].status = "returned" => procs'[g] = procs[g]

(***************************************************************************)
(* C32: the core never reports an outcome: whatever the handler does       *)
(* (returns nil, returns an error, calls neither callback) processTask     *)
(* sends no complete and no fail of its own; and in the public Worker a    *)
(* handler that returns nil without having completed its task causes no    *)
(* complete and no fail, so that the task stays as the engine locked it.   *)
(***************************************************************************)
C32_CoreNeverReports == [][NoReportOfItsOwn]_vars

\* A plain handler has returned an error and an adapted handler has returned
\* nil, neither has called a callback, and nothing was sent for their tasks.
C32_Witness ==
    /\ Len(procs) = 2
    /\ \E g, h \in DOMAIN procs :
          /\ ~IsAdapter(procs[g].handler) /\ procs[g].handler # NoHandler
          /\ procs[g].status = "returned" /\ procs[g].err = HandlerErr
          /\ procs[g].calls = <<>>
          /\ IsAdapter(procs[h].handler)
          /\ procs[h].status = "returned" /\ procs[h].err = NoErr
          /\ procs[h].calls = <<>>

\* The fail request the adapter sends for a run that ended with an error.
AutoFailOf(h) ==
    [ kind |-> "fail", taskID |-> h.taskID, workerId |-> w.workerID,
      errorMessage |-> "Task processing failed", errorDetails |-> h.ret,
      retries |-> 3, retryTimeout |-> 30000 ]

\* The user handler of run h has completed its task: the engine answered 204.
CompletedByHandler(h) ==
    /\ Len(h.own) = 1
    /\ h.own[1].req.kind = "complete" /\ h.own[1].req.taskID = h.taskID
    /\ h.own[1].err = NoErr

\* The complete request of the user handler of run h failed: whether the
\* engine has completed the task is not known to the worker.
CompletionUnknown(h) ==
    /\ Len(h.own) = 1
    /\ h.own[1].req.kind = "complete" /\ h.own[1].req.taskID = h.taskID
    /\ h.own[1].err # NoErr

(***************************************************************************)
(* C33: in the public Worker the automatic fail is sent whenever the       *)
(* handler returns an error, whatever the handler did before: a handler    *)
(* that has completed its task and then returns an error causes a complete *)
(* and a fail for the same task, and a handler that returns the error of   *)
(* its own failed complete causes a fail for a task whose completion is    *)
(* not known.                                                              *)
(***************************************************************************)
C33_AutoFailWhateverBefore ==
    /\ \A i \in DOMAIN handled :
           /\ (handled[i].ret # NoErr) <=> (Len(handled[i].auto) = 1)
           /\ handled[i].ret # NoErr => handled[i].auto[1].req = AutoFailOf(handled[i])
    /\ Len(handled) < MaxHandled =>
           \A task \in EngineTasks, resp \in ReportResponses :
               LET done == << Sent(CompleteRequest(Callbacks(w, task)), resp) >> IN
               /\ ENABLED HandleRun(task, done, HandlerErr, OkReport)
               /\ Execute(resp) # NoErr => ENABLED HandleRun(task, done, Execute(resp), OkReport)

\* One run whose handler completed its task and returned an error, so that a
\* complete and a fail went out for the task; and one whose handler returned
\* the error of its complete request, and a fail followed.
C33_Witness ==
    /\ Len(handled) = 2
    /\ CompletedByHandler(handled[1])
    /\ handled[1].ret = HandlerErr
    /\ handled[1].auto[1].req.kind = "fail"
    /\ handled[1].auto[1].req.taskID = handled[1].own[1].req.taskID
    /\ CompletionUnknown(handled[2])
    /\ handled[2].ret = handled[2].own[1].err
    /\ handled[2].auto[1].req.kind = "fail"
    /\ handled[2].auto[1].req.taskID = handled[2].taskID

\* The handler invocations in flight: started and not over.
InFlight == { g \in DOMAIN procs : procs[g].status \in {"running", "failing", "blocked"} }

\* The loop is held up by nothing but its own fetch and sleep: with handlers
\* in flight it goes on to the next iteration and takes the next batch.
LoopIgnoresHandlers ==
    ~crashed =>
        /\ pc = "check" => ENABLED LoopTop
        /\ pc = "selected" => ENABLED CallFetchAndLock
        /\ pc = "sleeping" => ENABLED Wake
        /\ (pc = "fetching" /\ ~fetchCtxDone /\ pending # {}) =>
               ENABLED (\E resp \in FetchResponses :
                           Len(FetchAndLock(resp).tasks) > 0 /\ FetchReturn(resp))

(***************************************************************************)
(* C34: maxTasks bounds a batch, not the handlers running at a time: the   *)
(* loop fetches again after the fixed pause without waiting for the batch  *)
(* before, so that the handlers of successive batches run at the same time *)
(* and more than maxTasks invocations can be in flight.                    *)
(***************************************************************************)
C34_InFlightUnbounded ==
    /\ [](LoopIgnoresHandlers)
    /\ [][Len(procs') - Len(procs) <= w.maxTasks]_vars
    /\ [](fetchReq # NoFetchReq => fetchReq.maxTasks = w.maxTasks)

\* With maxTasks 1, the handlers of two successive batches are running.
C34_Witness ==
    /\ w.maxTasks = 1
    /\ Cardinality(InFlight) = 2
    /\ procs[1].task.id # procs[2].task.id
    /\ procs[1].status = "running" /\ procs[2].status = "running"

\* A fetch that comes back with tasks gives every one of them a goroutine,
\* whatever ids the goroutines before have.
EveryTaskDispatched ==
    (pc = "fetching" /\ pc' = "sleeping") =>
        \E resp \in FetchResponses :
            /\ CanComeBack(resp, fetchCtxDone)
            /\ pending' = pending \ Range(FetchAndLock(resp).tasks)
            /\ procs' = procs \o [i \in 1..Len(FetchAndLock(resp).tasks) |->
                                    Spawn(FetchAndLock(resp).tasks[i])]

\* The goroutines that hold the same task id as g.
SameTask(g) == { h \in DOMAIN procs \ {g} : procs[h].task.id = procs[g].task.id }

\* An invocation has callbacks of its own, made by its own processTask.
OwnCallbacks(g) ==
    procs[g].status \in {"running", "blocked", "returned", "panicked"} =>
        /\ procs[g].cb.nonNil
        /\ procs[g].cb = Callbacks(w, procs[g].task)
        /\ \A i \in DOMAIN procs[g].calls : procs[g].calls[i].taskID = procs[g].task.id

(***************************************************************************)
(* C35: the worker does not deduplicate tasks by id: when the engine gives *)
(* out a task with the same id in two fetches (its lock ran out while the  *)
(* handler was running), the worker starts a second invocation for the id, *)
(* which can run together with the first, and every invocation has its own *)
(* complete and fail callbacks.                                            *)
(***************************************************************************)
C35_NoDeduplication ==
    /\ [][EveryTaskDispatched]_vars
    /\ [](\A g \in DOMAIN procs : OwnCallbacks(g))
    /\ [](\A g \in DOMAIN procs :
              (procs[g].status = "start" /\ ~crashed) => ENABLED ProcessTask(g))

\* Two invocations for the one task id are running, each with its callbacks,
\* and the second one has called complete.
C35_Witness ==
    /\ Len(procs) = 2
    /\ SameTask(1) = {2}
    /\ procs[1].status = "running" /\ procs[2].status = "running"
    /\ procs[1].cb.nonNil /\ procs[2].cb.nonNil
    /\ procs[1].calls = <<>>
    /\ Len(procs[2].calls) = 1 /\ procs[2].calls[1].kind = "complete"

\* The topic names of the subscription list, and the keys of the handler map.
SubscribedTopics == { w.topics[i].topicName : i \in DOMAIN w.topics }
HandledTopics == DOMAIN w.handlers

(***************************************************************************)
(* C36: after any sequence of RegisterHandler calls, the set of the topic  *)
(* names in the subscription list is the key set of the handler map: every *)
(* topic asked of the engine has an entry in the map, and every key of the *)
(* map is asked of the engine.                                             *)
(***************************************************************************)
C36_TopicsMatchHandlers == SubscribedTopics = HandledTopics

\* One topic registered twice: two entries in the list, one key in the map.
C36_Witness ==
    /\ Len(w.topics) = 2
    /\ w.topics[1].topicName = w.topics[2].topicName
    /\ Len(regHist) = 2
    /\ HandledTopics = {w.topics[1].topicName}

\* Where the loop can still be once a step of its body is under way with the
\* context cancelled, were it to start no further fetch and no further sleep.
AfterCheck == {"check", "returned"}
AfterSleep == {"sleeping"} \cup AfterCheck
AfterFetch == {"fetching"} \cup AfterSleep

\* With the context cancelled, a loop that is in one of these places stays in
\* them: it does not come to call fetchAndLock again, nor (from the sleep on)
\* to sleep again.
NoWayBack(places) == (cancelled /\ pc \in places) => pc' \in places

\* Start returns from the check at the top of an iteration and nowhere else,
\* and the check returns when the context is cancelled.
ReturnsAtCheck ==
    /\ (pc' = "returned" /\ pc # "returned") => (pc = "check" /\ cancelled)
    /\ (pc = "check" /\ cancelled /\ pc' # pc) => pc' = "returned"

\* A cancellation after the check does not stop the iteration: the fetch is
\* called, with the cancelled context.
IterationGoesOn ==
    (pc = "selected" /\ cancelled /\ ~crashed) => ENABLED CallFetchAndLock

(***************************************************************************)
(* C37: between the cancellation of the context and the return of Start    *)
(* the loop starts at most one fetchAndLock call and at most one sleep: a  *)
(* cancellation that comes after the check at the top of an iteration is   *)
(* seen at the top of the next one, after the fetch of this iteration and  *)
(* the pause that follows it.                                              *)
(***************************************************************************)
C37_OneFetchOneSleepAfterCancel ==
    /\ [][ReturnsAtCheck]_vars
    /\ []IterationGoesOn
    /\ [][NoWayBack(AfterFetch)]_vars
    /\ [][NoWayBack(AfterSleep)]_vars
    /\ [][NoWayBack(AfterCheck)]_vars

\* Start has returned after a fetch that was called with the cancelled context
\* and the sleep after it: the cancellation came between check and call.
C37_Witness ==
    /\ pc = "returned"
    /\ cancelled
    /\ fetchCtxDone
    /\ consecFails > 0
    /\ sleepFor = 0

\* A goroutine is launched in this step: go w.processTask.
Launches == Len(procs') > Len(procs)

\* Goroutines are launched by the loop, in the step that takes the batch of a
\* fetch, and a loop that has returned stays so and launches none.
LaunchedByTheLoop ==
    /\ Launches => (pc = "fetching" /\ pc' = "sleeping")
    /\ pc = "returned" => (pc' = "returned" /\ ~Launches)

\* An invocation launched before the return is not ended by it: it can enter
\* its handler, and its handler can report.
GoesOnAfterReturn ==
    \A g \in DOMAIN procs :
        (pc = "returned" /\ ~crashed) =>
            /\ procs[g].status = "start" => ENABLED ProcessTask(g)
            /\ (procs[g].status = "running" /\ HandlerCalls < MaxCalls) =>
                   \E resp \in ReportResponses : ENABLED HandlerCall(g, "complete", resp)

(***************************************************************************)
(* C38: after Start has returned the worker launches no new handler        *)
(* invocation: every invocation is launched inside an iteration of the     *)
(* loop, before the return; the ones launched before may still be running  *)
(* and reporting after it.                                                 *)
(***************************************************************************)
C38_NoLaunchAfterReturn ==
    /\ [][LaunchedByTheLoop]_vars
    /\ []GoesOnAfterReturn

\* Start has returned, a task is still at the engine, and an invocation of
\* before the return is in its handler and has reported.
C38_Witness ==
    /\ pc = "returned"
    /\ pending # {}
    /\ Len(procs) = 1
    /\ procs[1].status = "running"
    /\ Len(procs[1].calls) = 1

\* The response has a task whose document does not decode.
HasUndecodable(resp) ==
    \E i \in DOMAIN Body(resp) : UnmarshalJSON(Body(resp)[i]).err # NoErr

\* What the loop does in this step is what the claim says of the response: a
\* fetch error (nothing dispatched, sleep of pollInterval) when one document
\* does not decode or no response came, a sleep of pollInterval for an empty
\* array, and otherwise a goroutine for every task and the brief pause.
TakenAsClaimed(resp) ==
    /\ pending' = pending \ Range(resp.tasks)
    /\ IF resp.transportErr \/ HasUndecodable(resp)
           THEN /\ procs' = procs
                /\ sleepFor' = w.pollInterval
                /\ consecFails' = Min(consecFails + 1, MaxFails)
       ELSE IF Len(resp.tasks) = 0
           THEN /\ procs' = procs
                /\ sleepFor' = w.pollInterval
                /\ consecFails' = 0
       ELSE /\ procs' = procs \o [i \in 1..Len(resp.tasks) |-> Spawn(resp.tasks[i])]
            /\ sleepFor' = BriefPause
            /\ consecFails' = 0

AllOrNothing ==
    (pc = "fetching" /\ pc' # pc) =>
        /\ pc' = "sleeping"
        /\ \E resp \in BodyResponses : CanComeBack(resp, fetchCtxDone) /\ TakenAsClaimed(resp)

(***************************************************************************)
(* C39: the decoding of a batch is all-or-nothing: when one task of a      *)
(* fetch response does not decode (its lockExpirationTime matches no       *)
(* accepted layout), the fetch counts as a fetch error, no task of the     *)
(* response is dispatched, the well-formed ones (which the engine has      *)
(* locked) included, and the loop sleeps pollInterval and goes on.         *)
(***************************************************************************)
C39_BatchAllOrNothing ==
    /\ [][AllOrNothing]_vars
    /\ []((pc = "sleeping" /\ ~crashed) => ENABLED Wake)
    /\ [][(pc = "sleeping" /\ pc' # pc) => pc' = "check"]_vars

\* Both tasks of the engine were in one response that did not decode: they are
\* locked at the engine, no goroutine was launched, the failure is counted and
\* the loop sleeps pollInterval.
C39_Witness ==
    /\ pc = "sleeping"
    /\ sleepFor = w.pollInterval
    /\ consecFails = 1
    /\ ~fetchCtxDone
    /\ pending = {}
    /\ procs = <<>>
====
